---- MODULE Spec2Model ----
(***************************************************************************)
(* Cost estimation and diff engine of cfn-cost-calc.                       *)
(*                                                                         *)
(* Representation.                                                         *)
(*  - A JavaScript value is a tagged record: [t |-> "undefined"],          *)
(*    [t |-> "null"], [t |-> "num", n |-> Int], [t |-> "str", s |-> STRING],*)
(*    [t |-> "bool", b |-> BOOLEAN], [t |-> "arr", a |-> sequence],        *)
(*    [t |-> "obj", o |-> function from keys to values].                   *)
(*  - Strings are TLA+ strings; startsWith and endsWith are computed on    *)
(*    their characters.                                                    *)
(*  - Money is an integer number of 1/10000 USD (0.0001 USD).  A monthly   *)
(*    cost c stands for c * 0.0001 USD.  An hourly cost is held as the     *)
(*    integer h that stands for h * 0.0001 / 730 USD, so that the code's   *)
(*    monthlyCost / HOURS_PER_MONTH is the exact image h = c and the code's*)
(*    hourlyPrice * count is h = 730 * hourlyPrice * count.                *)
(*  - A percentage is the exact fraction [num, den] with den > 0.          *)
(*  - The objects that the process shares are held on a heap: pricingHeap   *)
(*    is the sequence of the pricing table objects and a calculator holds  *)
(*    the index of its table.  A regional price is the base price times    *)
(*    the factor of the region, to the nearest 0.0001 USD.                 *)
(***************************************************************************)
EXTENDS Integers, Sequences, FiniteSets, TLC

VARIABLES
  template,     \* the template last handed to calculateStackCost
  outcome,      \* "none" | "returned" | "threw": how calculateStackCost ended
  estimate,     \* the StackCostEstimate it returned
  calls,        \* sequence of logical ids, one per calculator/estimator invocation
  before,       \* first argument of compareEstimates
  after,        \* second argument of compareEstimates
  comparison,   \* the CostComparison last returned by compareEstimates
  stage,        \* position in compareTemplates: "start", "before", "after", "compared",
                \* then "reversed", "summarized" or "significant" after a report call
  beforeTemplate,  \* the beforeTemplate argument of compareTemplates (null or a template)
  reversed,     \* the CostComparison of compareEstimates(after, before)
  stats,        \* the record last returned by getSummaryStats
  significant,  \* the list last returned by getSignificantChanges
  propertyCall,   \* the arguments of the last getPropertyValue call, or null
  propertyResult, \* the value that call returned
  resolveCall,    \* the arguments of the last resolveBasicIntrinsics call, or null
  resolveResult,  \* the value that call returned
  pricingHeap,    \* the pricing table objects of the process; object 1 is the base table
  lookups,        \* one [region, table] per getRegionalPricing call, table a heap index
  priced,         \* per lookup, the estimate priced with its table, or null
  parserCall,     \* the two templates of the last TemplateParser.compareTemplates call, or null
  parserResult,   \* the four maps that call returned
  literalRun,     \* calculateStackCost on a template with literal property values
  referenceRun,   \* calculateStackCost on the same template with parameter references
  rendered        \* the last formatEstimate / formatComparison call: [call, format, rows]

vars == <<template, outcome, estimate, calls, before, after, comparison, stage,
          beforeTemplate, reversed, stats, significant, propertyCall, propertyResult,
          resolveCall, resolveResult, pricingHeap, lookups, priced,
          parserCall, parserResult, literalRun, referenceRun, rendered>>

\* the variables of calculateStackCost and of compareTemplates
stackVars == <<template, outcome, estimate, calls>>

diffVars == <<before, after, comparison, stage, beforeTemplate>>

\* the variables of the resolver, the pricing tables, the template
\* comparison, the literal/reference runs and the formatter
resolveVars == <<resolveCall, resolveResult>>

pricingVars == <<pricingHeap, lookups, priced>>

parserVars == <<parserCall, parserResult>>

runVars == <<literalRun, referenceRun>>

moduleVars == <<resolveVars, pricingVars, parserVars, runVars, rendered>>

\* the variables of the report calls and of the property reader
reportVars == <<reversed, stats, significant>>

propertyVars == <<propertyCall, propertyResult>>

(***************************************************************************)
(* Bounds                                                                  *)
(***************************************************************************)
MaxResources == 2

\* number of CostCalculator objects constructed in one run
MaxCalculators == 2

(***************************************************************************)
(* JavaScript values                                                       *)
(***************************************************************************)
Undefined == [t |-> "undefined"]

Null == [t |-> "null"]

Num(n) == [t |-> "num", n |-> n]

Str(s) == [t |-> "str", s |-> s]

Bool(b) == [t |-> "bool", b |-> b]

Arr(a) == [t |-> "arr", a |-> a]

Obj(o) == [t |-> "obj", o |-> o]

EmptyObj == Obj(<<>>)

\* typeof v === 'object' (null included, as in JavaScript)
IsObjectType(v) == v.t \in {"obj", "arr", "null"}

\* The property keys that JavaScript treats as array indices: the canonical
\* decimal strings "0", "1", "2", ... (no sign, no leading zero).
DigitChars == {"0", "1", "2", "3", "4", "5", "6", "7", "8", "9"}

DigitValue(c) ==
  CASE c = "0" -> 0 [] c = "1" -> 1 [] c = "2" -> 2 [] c = "3" -> 3
    [] c = "4" -> 4 [] c = "5" -> 5 [] c = "6" -> 6 [] c = "7" -> 7
    [] c = "8" -> 8 [] c = "9" -> 9

IsArrayIndex(key) ==
  /\ Len(key) > 0
  /\ \A i \in 1..Len(key) : SubSeq(key, i, i) \in DigitChars
  /\ Len(key) > 1 => SubSeq(key, 1, 1) # "0"

RECURSIVE ArrayIndex(_)
ArrayIndex(key) ==
  IF Len(key) = 0 THEN 0
  ELSE 10 * ArrayIndex(SubSeq(key, 1, Len(key) - 1))
         + DigitValue(SubSeq(key, Len(key), Len(key)))

\* v[key] for a value that is not null/undefined: a property of a record, an
\* element (or the length) of an array, undefined otherwise
Get(v, key) ==
  IF v.t = "obj" /\ key \in DOMAIN v.o THEN v.o[key]
  ELSE IF v.t = "arr" /\ IsArrayIndex(key) /\ ArrayIndex(key) < Len(v.a)
  THEN v.a[ArrayIndex(key) + 1]
  ELSE IF v.t = "arr" /\ key = "length" THEN Num(Len(v.a))
  ELSE Undefined

\* 'key' in obj, for a keyed record
HasKey(v, key) == v.t = "obj" /\ key \in DOMAIN v.o

\* v?.key : optional chaining
OptGet(v, key) ==
  IF v.t \in {"undefined", "null"} THEN Undefined ELSE Get(v, key)

\* JavaScript truthiness
Truthy(v) ==
  CASE v.t \in {"undefined", "null"} -> FALSE
    [] v.t = "num" -> v.n # 0
    [] v.t = "str" -> v.s # ""
    [] v.t = "bool" -> v.b
    [] OTHER -> TRUE

\* String(v) for the scalars that appear inside placeholders
ToStringJS(v) ==
  CASE v.t = "str" -> v.s
    [] v.t = "undefined" -> "undefined"
    [] v.t = "null" -> "null"
    [] v.t = "bool" -> IF v.b THEN "true" ELSE "false"
    [] v.t = "num" -> ToString(v.n)
    [] OTHER -> "[object Object]"

(***************************************************************************)
(* TemplateParser (src/src/index.ts)                                       *)
(***************************************************************************)
\* A template is [Parameters |-> value, Resources |-> sequence of
\* [logicalId, resource]] in the order of the template document.  A resource
\* entry is a record; it is a CloudFormationResource when it has a Type field.

\* insertion of an entry among entries sorted by ascending array index
RECURSIVE InsertByIndex(_, _)
InsertByIndex(e, sorted) ==
  IF sorted = << >> THEN <<e>>
  ELSE IF ArrayIndex(e.logicalId) < ArrayIndex(Head(sorted).logicalId)
  THEN <<e>> \o sorted
  ELSE <<Head(sorted)>> \o InsertByIndex(e, Tail(sorted))

RECURSIVE SortByIndex(_)
SortByIndex(entries) ==
  IF entries = << >> THEN << >>
  ELSE InsertByIndex(Head(entries), SortByIndex(Tail(entries)))

\* Object.entries(obj) of the object parsed from the document: the keys that
\* are array indices first, in ascending numeric order, then the other keys
\* in the order they were written
ObjectEntries(entries) ==
  SortByIndex(SelectSeq(entries, LAMBDA e : IsArrayIndex(e.logicalId)))
    \o SelectSeq(entries, LAMBDA e : ~IsArrayIndex(e.logicalId))

extractResources(tmpl) ==
  SelectSeq(ObjectEntries(tmpl.Resources), LAMBDA e : "Type" \in DOMAIN e.resource)

RECURSIVE resolveBasicIntrinsics(_, _, _)
resolveBasicIntrinsics(tmpl, value, context) ==
  IF value.t \in {"null", "undefined"} THEN value
  ELSE IF value.t \notin {"obj", "arr"} THEN value
  ELSE IF value.t = "arr" THEN
    Arr([i \in DOMAIN value.a |-> resolveBasicIntrinsics(tmpl, value.a[i], context)])
  ELSE IF HasKey(value, "Ref") /\ value.o["Ref"].t = "str" THEN
    LET refName == value.o["Ref"].s
        param == OptGet(tmpl.Parameters, refName)
    IN IF Truthy(tmpl.Parameters) /\ Truthy(param)
          /\ Truthy(OptGet(context, "parameters"))
          /\ Get(Get(context, "parameters"), refName).t # "undefined"
       THEN Get(Get(context, "parameters"), refName)
       ELSE IF Truthy(tmpl.Parameters) /\ Truthy(param)
               /\ Get(param, "Default").t # "undefined"
       THEN Get(param, "Default")
       ELSE Str("{{Ref:" \o refName \o "}}")
  ELSE IF HasKey(value, "Fn::GetAtt") /\ value.o["Fn::GetAtt"].t = "arr"
          /\ Len(value.o["Fn::GetAtt"].a) = 2 THEN
    Str("{{GetAtt:" \o ToStringJS(value.o["Fn::GetAtt"].a[1]) \o "."
          \o ToStringJS(value.o["Fn::GetAtt"].a[2]) \o "}}")
  ELSE IF HasKey(value, "Fn::Sub") /\ value.o["Fn::Sub"].t = "str" THEN
    value.o["Fn::Sub"]
  ELSE IF HasKey(value, "Fn::If") /\ value.o["Fn::If"].t = "arr"
          /\ Len(value.o["Fn::If"].a) >= 2 THEN
    resolveBasicIntrinsics(tmpl, value.o["Fn::If"].a[2], context)
  ELSE IF HasKey(value, "Fn::Select") /\ value.o["Fn::Select"].t = "arr"
          /\ Len(value.o["Fn::Select"].a) = 2
          /\ value.o["Fn::Select"].a[1].t = "num"
          /\ resolveBasicIntrinsics(tmpl, value.o["Fn::Select"].a[2], context).t = "arr" THEN
    LET index == value.o["Fn::Select"].a[1].n
        list == resolveBasicIntrinsics(tmpl, value.o["Fn::Select"].a[2], context).a
    IN IF index >= 0 /\ index < Len(list) THEN list[index + 1] ELSE Undefined
  ELSE
    Obj([k \in DOMAIN value.o |-> resolveBasicIntrinsics(tmpl, value.o[k], context)])

\* The walk of getPropertyValue over the path segments; "missing" stands for
\* the early `return defaultValue` inside the loop.
RECURSIVE WalkPath(_, _)
WalkPath(value, parts) ==
  IF parts = <<>> THEN [missing |-> FALSE, value |-> value]
  ELSE IF value.t \in {"null", "undefined"} \/ ~IsObjectType(value)
  THEN [missing |-> TRUE, value |-> Undefined]
  ELSE WalkPath(Get(value, Head(parts)), Tail(parts))

\* propertyPath is given as the sequence propertyPath.split('.')
getPropertyValue(tmpl, resource, propertyPath, defaultValue) ==
  LET properties == IF Truthy(resource.Properties) THEN resource.Properties ELSE EmptyObj
      w == WalkPath(properties, propertyPath)
  IN IF w.missing THEN defaultValue
     ELSE IF w.value.t = "undefined" THEN defaultValue
     ELSE resolveBasicIntrinsics(tmpl, w.value, EmptyObj)

\* JSON.stringify(value), held as the value tree that the text spells out: a
\* member whose value is undefined is left out of a record, an undefined
\* element of a list is written as null.  The objects of the model carry no
\* key order, so two serialisations are equal when these trees are equal.
RECURSIVE Stringify(_)
Stringify(value) ==
  IF value.t = "obj" THEN
    Obj([k \in {key \in DOMAIN value.o : value.o[key].t # "undefined"} |->
           Stringify(value.o[k])])
  ELSE IF value.t = "arr" THEN
    Arr([i \in DOMAIN value.a |->
           IF value.a[i].t = "undefined" THEN Null ELSE Stringify(value.a[i])])
  ELSE value

\* a comparison that looks at the declared type only
resourcesChanged_TypeOnly(beforeResource, afterResource) ==
  beforeResource.Type # afterResource.Type

resourcesChanged(beforeResource, afterResource) ==
  IF beforeResource.Type # afterResource.Type THEN TRUE
  ELSE LET beforeProps == Stringify(IF Truthy(beforeResource.Properties)
                                    THEN beforeResource.Properties ELSE EmptyObj)
           afterProps == Stringify(IF Truthy(afterResource.Properties)
                                   THEN afterResource.Properties ELSE EmptyObj)
       IN beforeProps # afterProps

\* map.has(logicalId) and map.get(logicalId) on the entries of a Map
ResourcesHas(entries, logicalId) ==
  \E i \in DOMAIN entries : entries[i].logicalId = logicalId

ResourcesGet(entries, logicalId) ==
  entries[CHOOSE i \in DOMAIN entries : entries[i].logicalId = logicalId].resource

\* one iteration of the loop over afterResources
CompareTemplatesStep(acc, entry, beforeResources) ==
  IF ~ResourcesHas(beforeResources, entry.logicalId)
  THEN [acc EXCEPT !.added = Append(@, entry)]
  ELSE IF resourcesChanged(ResourcesGet(beforeResources, entry.logicalId), entry.resource)
  THEN [acc EXCEPT !.modified =
          Append(@, [logicalId |-> entry.logicalId,
                     before |-> ResourcesGet(beforeResources, entry.logicalId),
                     after |-> entry.resource])]
  ELSE [acc EXCEPT !.unchanged = Append(@, entry)]

RECURSIVE CompareTemplatesLoop(_, _, _)
CompareTemplatesLoop(acc, entries, beforeResources) ==
  IF entries = << >> THEN acc
  ELSE CompareTemplatesLoop(CompareTemplatesStep(acc, Head(entries), beforeResources),
                            Tail(entries), beforeResources)

\* TemplateParser.compareTemplates: the four maps, each as the sequence of
\* its entries in insertion order
compareTemplates(beforeT, afterT) ==
  LET beforeResources == extractResources(beforeT)
      afterResources == extractResources(afterT)
      acc == CompareTemplatesLoop(
               [added |-> << >>, modified |-> << >>, unchanged |-> << >>],
               afterResources, beforeResources)
  IN [added |-> acc.added,
      removed |-> SelectSeq(beforeResources,
                            LAMBDA e : ~ResourcesHas(afterResources, e.logicalId)),
      modified |-> acc.modified,
      unchanged |-> acc.unchanged]

(***************************************************************************)
(* Pricing data (src/src/pricing-data.ts)                                  *)
(***************************************************************************)
HOURS_PER_MONTH == 730

FREE_RESOURCES ==
  { "AWS::CloudFormation::Stack", "AWS::CloudFormation::WaitCondition",
    "AWS::CloudFormation::WaitConditionHandle",
    "AWS::CloudFormation::CustomResource", "AWS::CloudFormation::Macro",
    "Custom::*", "AWS::IAM::Role", "AWS::IAM::Policy",
    "AWS::IAM::ManagedPolicy", "AWS::IAM::InstanceProfile", "AWS::IAM::User",
    "AWS::IAM::Group", "AWS::IAM::AccessKey", "AWS::IAM::ServiceLinkedRole",
    "AWS::EC2::SecurityGroup", "AWS::EC2::SecurityGroupIngress",
    "AWS::EC2::SecurityGroupEgress", "AWS::EC2::RouteTable", "AWS::EC2::Route",
    "AWS::EC2::SubnetRouteTableAssociation", "AWS::EC2::NetworkAclEntry",
    "AWS::EC2::VPCGatewayAttachment", "AWS::EC2::InternetGateway",
    "AWS::Lambda::Permission", "AWS::Lambda::EventSourceMapping",
    "AWS::Lambda::Alias", "AWS::Lambda::Version", "AWS::Lambda::LayerVersion",
    "AWS::Lambda::LayerVersionPermission", "AWS::Logs::LogGroup",
    "AWS::Logs::LogStream", "AWS::Logs::SubscriptionFilter", "AWS::SNS::Topic",
    "AWS::SNS::Subscription", "AWS::SQS::QueuePolicy", "AWS::Events::Rule",
    "AWS::Events::EventBus", "AWS::ApplicationAutoScaling::ScalableTarget",
    "AWS::ApplicationAutoScaling::ScalingPolicy",
    "AWS::AutoScaling::LaunchConfiguration", "AWS::AutoScaling::ScalingPolicy",
    "AWS::AutoScaling::LifecycleHook", "AWS::SSM::Parameter",
    "AWS::CDK::Metadata" }

USAGE_BASED_RESOURCES ==
  { "AWS::Lambda::Function", "AWS::DynamoDB::Table", "AWS::S3::Bucket",
    "AWS::SNS::Topic", "AWS::SQS::Queue", "AWS::ApiGateway::RestApi",
    "AWS::ApiGatewayV2::Api", "AWS::StepFunctions::StateMachine",
    "AWS::Kinesis::Stream", "AWS::Firehose::DeliveryStream" }

\* The base price table, in the shape the calculators read it
\* (pricing.ec2.instances[type], pricing.ebs.volumes[type], pricing.other.*),
\* in units of 0.0001 USD.  A key that is absent reads as undefined and makes
\* the calculator fall back to its hard-coded constant.
US_EAST_1_PRICING ==
  [ ec2 |-> [instances |-> ("t3.micro" :> 104 @@ "m5.large" :> 960)],
    ebs |-> [volumes |-> ("gp2" :> 1000 @@ "gp3" :> 800 @@ "io1" :> 1250),
             iops |-> <<>>,
             throughput |-> <<>>],
    kinesis |-> <<>>,
    natGateway |-> ("hourly" :> 450 @@ "perGB" :> 450),
    other |-> <<>> ]

\* table[key] where a missing key reads as undefined; undefined and 0 are both
\* falsy for the `||` chains of the calculators, and are both held as 0
Price(table, key) == IF key \in DOMAIN table THEN table[key] ELSE 0

\* a || b on prices
OrElse(a, b) == IF a # 0 THEN a ELSE b

\* The regional factors, in percent
REGIONAL_MULTIPLIERS ==
  ( "us-east-1" :> 100 @@ "us-east-2" :> 100 @@ "us-west-1" :> 110
    @@ "us-west-2" :> 100 @@ "eu-west-1" :> 105 @@ "eu-west-2" :> 108
    @@ "eu-west-3" :> 110 @@ "eu-central-1" :> 108 @@ "eu-north-1" :> 105
    @@ "ap-southeast-1" :> 110 @@ "ap-southeast-2" :> 115
    @@ "ap-northeast-1" :> 115 @@ "ap-northeast-2" :> 112
    @@ "ap-south-1" :> 105 @@ "ca-central-1" :> 105 @@ "sa-east-1" :> 150 )

\* REGIONAL_MULTIPLIERS is an object literal: a key it does not hold itself
\* is looked up in Object.prototype, whose members are functions or objects
ObjectPrototypeKeys ==
  { "constructor", "toString", "toLocaleString", "valueOf", "hasOwnProperty",
    "isPrototypeOf", "propertyIsEnumerable", "__proto__" }

\* REGIONAL_MULTIPLIERS[region] || 1.1 : [number, percent]; number is FALSE
\* for a value that is not a number (a member of Object.prototype, truthy)
RegionMultiplier(region) ==
  IF region \in DOMAIN REGIONAL_MULTIPLIERS
  THEN [number |-> TRUE, percent |-> OrElse(REGIONAL_MULTIPLIERS[region], 110)]
  ELSE IF region \in ObjectPrototypeKeys
  THEN [number |-> FALSE, percent |-> 0]
  ELSE [number |-> TRUE, percent |-> 110]

\* value * multiplier, to the nearest 0.0001 USD; NaN for a multiplier that
\* is not a number.  NaN is falsy for the `||` chains of the calculators and
\* is held as 0, like undefined (see Price).
Times(value, multiplier) ==
  IF multiplier.number THEN (value * multiplier.percent + 50) \div 100 ELSE 0

\* applyToObject on one object whose values are all numbers
ScaleLeaves(obj, multiplier) ==
  [key \in DOMAIN obj |-> Times(obj[key], multiplier)]

\* applyMultiplier: the deep copy JSON.parse(JSON.stringify(pricing)) with
\* every numeric leaf multiplied; the result is a new value with the keys of
\* its argument
applyMultiplier(pricing, multiplier) ==
  [ ec2 |-> [instances |-> ScaleLeaves(pricing.ec2.instances, multiplier)],
    ebs |-> [volumes |-> ScaleLeaves(pricing.ebs.volumes, multiplier),
             iops |-> ScaleLeaves(pricing.ebs.iops, multiplier),
             throughput |-> ScaleLeaves(pricing.ebs.throughput, multiplier)],
    kinesis |-> ScaleLeaves(pricing.kinesis, multiplier),
    natGateway |-> ScaleLeaves(pricing.natGateway, multiplier),
    other |-> ScaleLeaves(pricing.other, multiplier) ]

\* a variant that scales the base table object itself and returns it
getRegionalPricing_InPlace(heap, region) ==
  IF region = "us-east-1" THEN [heap |-> heap, table |-> 1]
  ELSE [heap |-> [heap EXCEPT ![1] = applyMultiplier(heap[1], RegionMultiplier(region))],
        table |-> 1]

\* getRegionalPricing on the objects of the process: heap[1] is the object
\* US_EAST_1_PRICING; the call returns the heap it leaves and the index of the
\* table object it returns
getRegionalPricing(heap, region) ==
  IF region = "us-east-1" THEN [heap |-> heap, table |-> 1]
  ELSE [heap |-> Append(heap, applyMultiplier(heap[1], RegionMultiplier(region))),
        table |-> Len(heap) + 1]

(***************************************************************************)
(* Strings                                                                 *)
(***************************************************************************)
startsWith(s, prefix) ==
  Len(s) >= Len(prefix) /\ SubSeq(s, 1, Len(prefix)) = prefix

endsWith(s, suffix) ==
  Len(s) >= Len(suffix) /\ SubSeq(s, Len(s) - Len(suffix) + 1, Len(s)) = suffix

\* String.prototype.toLowerCase on the strings of the model
toLowerCase(s) ==
  CASE s = "GP3" -> "gp3"
    [] s = "IO1" -> "io1"
    [] s = "GP2" -> "gp2"
    [] OTHER -> s

toUpperCase(s) ==
  CASE s = "gp3" -> "GP3"
    [] s = "io1" -> "IO1"
    [] s = "gp2" -> "GP2"
    [] OTHER -> s

(***************************************************************************)
(* Calculator results                                                      *)
(***************************************************************************)
\* A call either returns a ResourceCost (or null) or throws an Error
Returned(cost) == [threw |-> FALSE, cost |-> cost]

Threw(message) == [threw |-> TRUE, message |-> message]

\* an exact fraction, for unit prices that the code divides
Frac(n, d) == [num |-> n, den |-> d]

CostDetail(component, quantity, unitPrice, monthlyCost, unit) ==
  [component |-> component, quantity |-> quantity, unitPrice |-> unitPrice,
   monthlyCost |-> monthlyCost, unit |-> unit]

ResourceCost(resourceId, resourceType, monthlyCost, hourlyCost, unit, details, confidence) ==
  [resourceId |-> resourceId, resourceType |-> resourceType,
   monthlyCost |-> monthlyCost, hourlyCost |-> hourlyCost, unit |-> unit,
   details |-> details, confidence |-> confidence]

(***************************************************************************)
(* Registry calculators (src/src/cost-calculator.ts, initializeCalculators)*)
(***************************************************************************)
EC2InstanceCalculator(logicalId, resource, tmpl, pricing) ==
  LET instanceType == getPropertyValue(tmpl, resource, <<"InstanceType">>, Str("t3.micro"))
      hourlyPrice ==
        OrElse(IF instanceType.t = "str" THEN Price(pricing.ec2.instances, instanceType.s) ELSE 0,
               OrElse(Price(pricing.ec2.instances, "t3.micro"), 104))
  IN Returned(ResourceCost(logicalId, "AWS::EC2::Instance",
       hourlyPrice * HOURS_PER_MONTH, hourlyPrice * HOURS_PER_MONTH, "instance",
       << CostDetail("EC2 " \o ToStringJS(instanceType), 1, Frac(hourlyPrice, 1),
                     hourlyPrice * HOURS_PER_MONTH, "hour") >>,
       "high"))

AutoScalingGroupCalculator(logicalId, resource, tmpl, pricing) ==
  LET minSize == getPropertyValue(tmpl, resource, <<"MinSize">>, Num(1))
      maxSize == getPropertyValue(tmpl, resource, <<"MaxSize">>, Num(1))
      desiredCapacity == getPropertyValue(tmpl, resource, <<"DesiredCapacity">>, minSize)
      instanceType == "t3.micro"
      launchTemplate == OptGet(resource.Properties, "LaunchTemplate")
      launchConfig == OptGet(resource.Properties, "LaunchConfigurationName")
      instanceCount == IF desiredCapacity.t = "num" THEN desiredCapacity.n ELSE minSize.n
      hourlyPrice ==
        OrElse(Price(pricing.ec2.instances, instanceType),
               OrElse(Price(pricing.ec2.instances, "t3.micro"), 104))
  IN Returned(ResourceCost(logicalId, "AWS::AutoScaling::AutoScalingGroup",
       hourlyPrice * HOURS_PER_MONTH * instanceCount,
       hourlyPrice * instanceCount * HOURS_PER_MONTH, "instances",
       << CostDetail("ASG (" \o ToString(instanceCount) \o " x " \o instanceType \o ")",
                     instanceCount, Frac(hourlyPrice * HOURS_PER_MONTH, 1),
                     hourlyPrice * HOURS_PER_MONTH * instanceCount, "instance/month") >>,
       IF Truthy(launchTemplate) \/ Truthy(launchConfig) THEN "medium" ELSE "low"))

EC2VolumeCalculator(logicalId, resource, tmpl, pricing) ==
  LET rawType == getPropertyValue(tmpl, resource, <<"VolumeType">>, Str("gp3"))
  IN IF rawType.t # "str" THEN Threw("toLowerCase is not a function")
     ELSE
     LET volumeType == toLowerCase(rawType.s)
         size == getPropertyValue(tmpl, resource, <<"Size">>, Num(100)).n
         iops == getPropertyValue(tmpl, resource, <<"Iops">>, Num(3000)).n
         throughput == getPropertyValue(tmpl, resource, <<"Throughput">>, Num(125)).n
         pricePerGB == OrElse(Price(pricing.ebs.volumes, volumeType),
                              OrElse(Price(pricing.ebs.volumes, "gp3"), 800))
         storage == << CostDetail("EBS " \o toUpperCase(volumeType) \o " Storage", size,
                                  Frac(pricePerGB, 1), pricePerGB * size, "GB/month") >>
         iopsDetails ==
           IF volumeType \in {"io1", "io2"} THEN
             LET iopsPrice == OrElse(Price(pricing.ebs.iops, volumeType), 650)
             IN << CostDetail("Provisioned IOPS", iops, Frac(iopsPrice, 1),
                              iopsPrice * iops, "IOPS/month") >>
           ELSE IF volumeType = "gp3" /\ iops > 3000 THEN
             LET iopsPrice == OrElse(Price(pricing.ebs.iops, "gp3"), 50)
             IN << CostDetail("Additional IOPS (above 3000)", iops - 3000, Frac(iopsPrice, 1),
                              iopsPrice * (iops - 3000), "IOPS/month") >>
           ELSE << >>
         throughputDetails ==
           IF volumeType = "gp3" /\ throughput > 125 THEN
             LET throughputPrice == OrElse(Price(pricing.ebs.throughput, "gp3"), 400)
             IN << CostDetail("Additional Throughput (above 125 MBps)", throughput - 125,
                              Frac(throughputPrice, 1),
                              throughputPrice * (throughput - 125), "MBps/month") >>
           ELSE << >>
         monthlyCost ==
           pricePerGB * size
           + (IF iopsDetails = << >> THEN 0 ELSE iopsDetails[1].monthlyCost)
           + (IF throughputDetails = << >> THEN 0 ELSE throughputDetails[1].monthlyCost)
     IN Returned(ResourceCost(logicalId, "AWS::EC2::Volume", monthlyCost, monthlyCost,
          "volume", storage \o iopsDetails \o throughputDetails, "high"))

KinesisStreamCalculator(logicalId, resource, tmpl, pricing) ==
  LET shardCount == getPropertyValue(tmpl, resource, <<"ShardCount">>, Num(1)).n
      shardHourly == OrElse(Price(pricing.kinesis, "shardHourly"), 150)
      monthlyCost == shardHourly * HOURS_PER_MONTH * shardCount
  IN Returned(ResourceCost(logicalId, "AWS::Kinesis::Stream", monthlyCost,
       shardHourly * shardCount * HOURS_PER_MONTH, "stream",
       << CostDetail("Kinesis Stream (" \o ToString(shardCount) \o " shards)",
                     shardCount * HOURS_PER_MONTH, Frac(shardHourly, 1),
                     monthlyCost, "shard-hours") >>,
       "high"))

\* variant: the top-level monthlyCost leaves the data processing row out
NatGatewayCalculator_HourlyOnly(logicalId, resource, tmpl, pricing) ==
  LET hourlyPrice == OrElse(Price(pricing.natGateway, "hourly"), 450)
      monthlyCost == hourlyPrice * HOURS_PER_MONTH
      estimatedDataGB == 100
      dataPrice == OrElse(Price(pricing.natGateway, "perGB"), 450)
      dataProcessingCost == dataPrice * estimatedDataGB
  IN Returned(ResourceCost(logicalId, "AWS::EC2::NatGateway",
       monthlyCost, hourlyPrice * HOURS_PER_MONTH, "gateway",
       << CostDetail("NAT Gateway Hourly", HOURS_PER_MONTH, Frac(hourlyPrice, 1),
                     monthlyCost, "hours"),
          CostDetail("Data Processing (est. 100GB)", estimatedDataGB, Frac(dataPrice, 1),
                     dataProcessingCost, "GB") >>,
       "medium"))

\* hourlyCost: hourlyPrice is held as hourlyPrice * HOURS_PER_MONTH (see the
\* representation of hourly costs)
NatGatewayCalculator(logicalId, resource, tmpl, pricing) ==
  LET hourlyPrice == OrElse(Price(pricing.natGateway, "hourly"), 450)
      monthlyCost == hourlyPrice * HOURS_PER_MONTH
      estimatedDataGB == 100
      dataPrice == OrElse(Price(pricing.natGateway, "perGB"), 450)
      dataProcessingCost == dataPrice * estimatedDataGB
  IN Returned(ResourceCost(logicalId, "AWS::EC2::NatGateway",
       monthlyCost + dataProcessingCost, hourlyPrice * HOURS_PER_MONTH, "gateway",
       << CostDetail("NAT Gateway Hourly", HOURS_PER_MONTH, Frac(hourlyPrice, 1),
                     monthlyCost, "hours"),
          CostDetail("Data Processing (est. 100GB)", estimatedDataGB, Frac(dataPrice, 1),
                     dataProcessingCost, "GB") >>,
       "medium"))

\* The calculator reads Properties.ScalingConfig and Properties.InstanceTypes
\* as they are written in the template (no getPropertyValue); the sizes of
\* the model's templates are numbers or absent.  A key of the price table
\* that is not a string is converted to one.
EKSNodegroupCalculator(logicalId, resource, tmpl, pricing) ==
  LET scalingConfig == OptGet(resource.Properties, "ScalingConfig")
      desired == OptGet(scalingConfig, "DesiredSize")
      minimum == OptGet(scalingConfig, "MinSize")
      desiredSize == IF Truthy(desired) THEN desired.n
                     ELSE IF Truthy(minimum) THEN minimum.n ELSE 1
      declaredTypes == OptGet(resource.Properties, "InstanceTypes")
      instanceTypes == IF Truthy(declaredTypes) THEN declaredTypes
                       ELSE Arr(<< Str("t3.medium") >>)
      instanceType == Get(instanceTypes, "0")
      hourlyPrice ==
        OrElse(Price(pricing.ec2.instances, ToStringJS(instanceType)),
               OrElse(Price(pricing.ec2.instances, "t3.medium"), 416))
      monthlyCost == hourlyPrice * HOURS_PER_MONTH * desiredSize
  IN Returned(ResourceCost(logicalId, "AWS::EKS::Nodegroup", monthlyCost,
       hourlyPrice * desiredSize * HOURS_PER_MONTH, "nodegroup",
       << CostDetail("EKS Node Group (" \o ToString(desiredSize) \o " x "
                       \o ToStringJS(instanceType) \o ")",
                     desiredSize * HOURS_PER_MONTH, Frac(hourlyPrice, 1),
                     monthlyCost, "instance-hours") >>,
       "medium"))

\* the keys of the calculators map that the model carries
RegisteredTypes ==
  { "AWS::EC2::Instance", "AWS::AutoScaling::AutoScalingGroup",
    "AWS::EC2::Volume", "AWS::Kinesis::Stream", "AWS::EC2::NatGateway",
    "AWS::EKS::Nodegroup" }

\* calculators.get(resourceType)(logicalId, resource, template, pricing)
Calculator(resourceType, logicalId, resource, tmpl, pricing) ==
  CASE resourceType = "AWS::EC2::Instance" ->
         EC2InstanceCalculator(logicalId, resource, tmpl, pricing)
    [] resourceType = "AWS::AutoScaling::AutoScalingGroup" ->
         AutoScalingGroupCalculator(logicalId, resource, tmpl, pricing)
    [] resourceType = "AWS::EC2::Volume" ->
         EC2VolumeCalculator(logicalId, resource, tmpl, pricing)
    [] resourceType = "AWS::Kinesis::Stream" ->
         KinesisStreamCalculator(logicalId, resource, tmpl, pricing)
    [] resourceType = "AWS::EC2::NatGateway" ->
         NatGatewayCalculator(logicalId, resource, tmpl, pricing)
    [] resourceType = "AWS::EKS::Nodegroup" ->
         EKSNodegroupCalculator(logicalId, resource, tmpl, pricing)

(***************************************************************************)
(* Usage-based estimators (src/src/cost-calculator.ts)                     *)
(***************************************************************************)
calculateS3Cost(logicalId, resource, tmpl, pricing) ==
  LET standardStorage ==
        IF "s3" \in DOMAIN pricing.other THEN pricing.other["s3"].standardStorage ELSE 230
      estimatedStorageGB == 100
      storageCost == estimatedStorageGB * standardStorage
  IN Returned(ResourceCost(logicalId, "AWS::S3::Bucket", storageCost, storageCost, "bucket",
       << CostDetail("S3 Storage (est. 100GB)", estimatedStorageGB,
                     Frac(standardStorage, 1), storageCost, "GB/month") >>,
       "low"))

calculateSQSCost(logicalId, resource, tmpl, pricing) ==
  LET sqsPricing ==
        IF "sqs" \in DOMAIN pricing.other THEN pricing.other["sqs"]
        ELSE [standard |-> 4000, fifo |-> 5000]
      queueName == OptGet(resource.Properties, "QueueName")
      fifoQueue == OptGet(resource.Properties, "FifoQueue")
  IN \* (QueueName as string)?.endsWith('.fifo'): a value that is neither
     \* null/undefined nor a string has no endsWith method
     IF queueName.t \notin {"undefined", "null", "str"}
     THEN Threw("endsWith is not a function")
     ELSE
     LET isFifo == (queueName.t = "str" /\ endsWith(queueName.s, ".fifo"))
                   \/ fifoQueue = Bool(TRUE)
         estimatedRequests == 1000000
         pricePerMillion == IF isFifo THEN sqsPricing.fifo ELSE sqsPricing.standard
         requestCost == (estimatedRequests \div 1000000) * pricePerMillion
     IN Returned(ResourceCost(logicalId, "AWS::SQS::Queue", requestCost, requestCost, "queue",
          << CostDetail("SQS " \o (IF isFifo THEN "FIFO" ELSE "Standard")
                          \o " Requests (est. 1M/mo)",
                        estimatedRequests, Frac(pricePerMillion, 1000000),
                        requestCost, "requests") >>,
          "low"))

\* The switch of calculateUsageBasedResource, for the estimators the model
\* carries; a type with no case falls to `default: return null`.
calculateUsageBasedResource(logicalId, resource, tmpl, pricing) ==
  CASE resource.Type = "AWS::S3::Bucket" -> calculateS3Cost(logicalId, resource, tmpl, pricing)
    [] resource.Type = "AWS::SQS::Queue" -> calculateSQSCost(logicalId, resource, tmpl, pricing)
    [] OTHER -> Returned(Null)

(***************************************************************************)
(* CostCalculator.calculateStackCost (src/src/cost-calculator.ts)          *)
(***************************************************************************)
\* isFreeResource without its Custom:: prefix test
isFreeResource_NoPrefix(resourceType) ==
  resourceType \in FREE_RESOURCES

isFreeResource(resourceType) ==
  IF resourceType \in FREE_RESOURCES THEN TRUE
  ELSE IF startsWith(resourceType, "Custom::") THEN TRUE
  ELSE FALSE

UnsupportedResource(resourceId, resourceType, reason) ==
  [resourceId |-> resourceId, resourceType |-> resourceType, reason |-> reason]

\* if (cost) { resources.push(cost); }
PushCost(acc, cost) ==
  IF cost # Null THEN [acc EXCEPT !.resources = Append(@, cost)] ELSE acc

\* a catch block that swallows the error
CatchCalculatorError_Swallow(acc, logicalId, resourceType, message) == acc

\* the catch block around the registry calculator
CatchCalculatorError(acc, logicalId, resourceType, message) ==
  [acc EXCEPT !.unsupportedResources =
                 Append(@, UnsupportedResource(logicalId, resourceType,
                                               "Calculation error: " \o message))]

\* a final else branch that drops the resource
PushUnsupported_Skip(acc, logicalId, resourceType) == acc

\* the final else branch
PushUnsupported(acc, logicalId, resourceType) ==
  [acc EXCEPT !.unsupportedResources =
                 Append(@, UnsupportedResource(logicalId, resourceType,
                    "No pricing calculator available for this resource type"))]

\* an iteration that consults the usage-based set before the registry
StackCostStep_UsageFirst(acc, entry, tmpl, pricing) ==
  LET logicalId == entry.logicalId
      resource == entry.resource
      resourceType == resource.Type
      invoked == [acc EXCEPT !.calls = Append(@, logicalId)]
  IN IF acc.threw THEN acc
     ELSE IF isFreeResource(resourceType) THEN acc
     ELSE IF resourceType \in USAGE_BASED_RESOURCES THEN
       LET r == calculateUsageBasedResource(logicalId, resource, tmpl, pricing)
       IN IF r.threw
          THEN [invoked EXCEPT !.threw = TRUE, !.message = r.message]
          ELSE PushCost(invoked, r.cost)
     ELSE IF resourceType \in RegisteredTypes THEN
       LET r == Calculator(resourceType, logicalId, resource, tmpl, pricing)
       IN IF r.threw
          THEN CatchCalculatorError(invoked, logicalId, resourceType, r.message)
          ELSE PushCost(invoked, r.cost)
     ELSE PushUnsupported(acc, logicalId, resourceType)

\* One iteration of the for-loop over templateResources.  acc carries the two
\* output lists, the log of calculator/estimator invocations and whether an
\* exception has escaped the loop (after which no iteration runs).
StackCostStep(acc, entry, tmpl, pricing) ==
  LET logicalId == entry.logicalId
      resource == entry.resource
      resourceType == resource.Type
      invoked == [acc EXCEPT !.calls = Append(@, logicalId)]
  IN IF acc.threw THEN acc
     ELSE IF isFreeResource(resourceType) THEN acc
     ELSE IF resourceType \in RegisteredTypes THEN
       LET r == Calculator(resourceType, logicalId, resource, tmpl, pricing)
       IN IF r.threw
          THEN CatchCalculatorError(invoked, logicalId, resourceType, r.message)
          ELSE PushCost(invoked, r.cost)
     ELSE IF resourceType \in USAGE_BASED_RESOURCES THEN
       LET r == calculateUsageBasedResource(logicalId, resource, tmpl, pricing)
       IN IF r.threw
          THEN [invoked EXCEPT !.threw = TRUE, !.message = r.message]
          ELSE PushCost(invoked, r.cost)
     ELSE PushUnsupported(acc, logicalId, resourceType)

RECURSIVE StackCostLoop(_, _, _, _)
StackCostLoop(acc, entries, tmpl, pricing) ==
  IF entries = << >> THEN acc
  ELSE StackCostLoop(StackCostStep(acc, Head(entries), tmpl, pricing),
                     Tail(entries), tmpl, pricing)

\* a sum that leaves out the first resource
RECURSIVE SumMonthly_SkipFirst(_)
SumMonthly_SkipFirst(rs) ==
  IF Len(rs) <= 1 THEN 0
  ELSE SumMonthly_SkipFirst(SubSeq(rs, 1, Len(rs) - 1)) + rs[Len(rs)].monthlyCost

\* resources.reduce((sum, r) => sum + r.monthlyCost, 0)
RECURSIVE SumMonthly(_)
SumMonthly(rs) ==
  IF rs = << >> THEN 0 ELSE SumMonthly(SubSeq(rs, 1, Len(rs) - 1)) + rs[Len(rs)].monthlyCost

\* resources.reduce((sum, r) => sum + r.hourlyCost, 0)
RECURSIVE SumHourly(_)
SumHourly(rs) ==
  IF rs = << >> THEN 0 ELSE SumHourly(SubSeq(rs, 1, Len(rs) - 1)) + rs[Len(rs)].hourlyCost

EmptyAcc ==
  [resources |-> << >>, unsupportedResources |-> << >>, calls |-> << >>,
   threw |-> FALSE, message |-> ""]

\* The whole call: [threw, message, calls, estimate]; the timestamp is left out
calculateStackCost(stackName, tmpl, source, pricing) ==
  LET acc == StackCostLoop(EmptyAcc, extractResources(tmpl), tmpl, pricing)
  IN [threw |-> acc.threw, message |-> acc.message, calls |-> acc.calls,
      estimate |->
        [stackName |-> stackName, templateSource |-> source,
         totalMonthlyCost |-> SumMonthly(acc.resources),
         totalHourlyCost |-> SumHourly(acc.resources),
         resources |-> acc.resources,
         unsupportedResources |-> acc.unsupportedResources]]

\* the literal that compareTemplates builds for a null before-template
EmptyEstimate(stackName, source) ==
  [stackName |-> stackName, templateSource |-> source,
   totalMonthlyCost |-> 0, totalHourlyCost |-> 0,
   resources |-> << >>, unsupportedResources |-> << >>]

(***************************************************************************)
(* DiffCalculator.compareEstimates (src/src/diff-calculator.ts)            *)
(***************************************************************************)
\* the literal 0.01 of the classification test, in units of 0.0001 USD
CentThreshold == 100

Abs(x) == IF x < 0 THEN -x ELSE x

\* new Map(resources.map(r => [r.resourceId, r])): the keys in order of first
\* insertion, each with the value inserted last
RECURSIVE MapOf(_)
MapOf(rs) ==
  IF rs = << >> THEN << >>
  ELSE LET init == MapOf(SubSeq(rs, 1, Len(rs) - 1))
           r == rs[Len(rs)]
       IN IF \E i \in DOMAIN init : init[i].resourceId = r.resourceId
          THEN [i \in DOMAIN init |->
                  IF init[i].resourceId = r.resourceId THEN r ELSE init[i]]
          ELSE Append(init, r)

MapHas(m, resourceId) == \E i \in DOMAIN m : m[i].resourceId = resourceId

MapGet(m, resourceId) == m[CHOOSE i \in DOMAIN m : m[i].resourceId = resourceId]

ResourceChange(resourceId, resourceType, changeType, beforeCost, afterCost, costDifference) ==
  [resourceId |-> resourceId, resourceType |-> resourceType, changeType |-> changeType,
   beforeCost |-> beforeCost, afterCost |-> afterCost, costDifference |-> costDifference]

\* a first loop that matches on resourceId and resourceType
ClassifyAfter_ByType(afterResource, beforeResources) ==
  IF ~\E i \in DOMAIN beforeResources :
        /\ beforeResources[i].resourceId = afterResource.resourceId
        /\ beforeResources[i].resourceType = afterResource.resourceType
  THEN ResourceChange(afterResource.resourceId, afterResource.resourceType, "added",
                      0, afterResource.monthlyCost, afterResource.monthlyCost)
  ELSE LET beforeResource == MapGet(beforeResources, afterResource.resourceId)
       IN IF Abs(beforeResource.monthlyCost - afterResource.monthlyCost) > CentThreshold
          THEN ResourceChange(afterResource.resourceId, afterResource.resourceType, "modified",
                              beforeResource.monthlyCost, afterResource.monthlyCost,
                              afterResource.monthlyCost - beforeResource.monthlyCost)
          ELSE ResourceChange(afterResource.resourceId, afterResource.resourceType, "unchanged",
                              beforeResource.monthlyCost, afterResource.monthlyCost, 0)

\* a first loop whose threshold test is >= instead of >
ClassifyAfter_Ge(afterResource, beforeResources) ==
  IF ~MapHas(beforeResources, afterResource.resourceId)
  THEN ResourceChange(afterResource.resourceId, afterResource.resourceType, "added",
                      0, afterResource.monthlyCost, afterResource.monthlyCost)
  ELSE LET beforeResource == MapGet(beforeResources, afterResource.resourceId)
       IN IF Abs(beforeResource.monthlyCost - afterResource.monthlyCost) >= CentThreshold
          THEN ResourceChange(afterResource.resourceId, afterResource.resourceType, "modified",
                              beforeResource.monthlyCost, afterResource.monthlyCost,
                              afterResource.monthlyCost - beforeResource.monthlyCost)
          ELSE ResourceChange(afterResource.resourceId, afterResource.resourceType, "unchanged",
                              beforeResource.monthlyCost, afterResource.monthlyCost, 0)

\* a first loop whose threshold test looks at decreases only
ClassifyAfter_DecreaseOnly(afterResource, beforeResources) ==
  IF ~MapHas(beforeResources, afterResource.resourceId)
  THEN ResourceChange(afterResource.resourceId, afterResource.resourceType, "added",
                      0, afterResource.monthlyCost, afterResource.monthlyCost)
  ELSE LET beforeResource == MapGet(beforeResources, afterResource.resourceId)
       IN IF beforeResource.monthlyCost - afterResource.monthlyCost > CentThreshold
          THEN ResourceChange(afterResource.resourceId, afterResource.resourceType, "modified",
                              beforeResource.monthlyCost, afterResource.monthlyCost,
                              afterResource.monthlyCost - beforeResource.monthlyCost)
          ELSE ResourceChange(afterResource.resourceId, afterResource.resourceType, "unchanged",
                              beforeResource.monthlyCost, afterResource.monthlyCost, 0)

\* body of the first loop, for one entry of afterResources
\* a threshold of two cents
ClassifyAfter_TwoCents(afterResource, beforeResources) ==
  IF ~MapHas(beforeResources, afterResource.resourceId)
  THEN ResourceChange(afterResource.resourceId, afterResource.resourceType, "added",
                      0, afterResource.monthlyCost, afterResource.monthlyCost)
  ELSE LET beforeResource == MapGet(beforeResources, afterResource.resourceId)
       IN IF Abs(beforeResource.monthlyCost - afterResource.monthlyCost) > 2 * CentThreshold
          THEN ResourceChange(afterResource.resourceId, afterResource.resourceType, "modified",
                              beforeResource.monthlyCost, afterResource.monthlyCost,
                              afterResource.monthlyCost - beforeResource.monthlyCost)
          ELSE ResourceChange(afterResource.resourceId, afterResource.resourceType, "unchanged",
                              beforeResource.monthlyCost, afterResource.monthlyCost, 0)

ClassifyAfter(afterResource, beforeResources) ==
  IF ~MapHas(beforeResources, afterResource.resourceId)
  THEN ResourceChange(afterResource.resourceId, afterResource.resourceType, "added",
                      0, afterResource.monthlyCost, afterResource.monthlyCost)
  ELSE LET beforeResource == MapGet(beforeResources, afterResource.resourceId)
       IN IF Abs(beforeResource.monthlyCost - afterResource.monthlyCost) > CentThreshold
          THEN ResourceChange(afterResource.resourceId, afterResource.resourceType, "modified",
                              beforeResource.monthlyCost, afterResource.monthlyCost,
                              afterResource.monthlyCost - beforeResource.monthlyCost)
          ELSE ResourceChange(afterResource.resourceId, afterResource.resourceType, "unchanged",
                              beforeResource.monthlyCost, afterResource.monthlyCost, 0)

\* a second loop that reports the removed cost with a positive sign
ClassifyRemoved_Positive(beforeResource) ==
  ResourceChange(beforeResource.resourceId, beforeResource.resourceType, "removed",
                 beforeResource.monthlyCost, 0, beforeResource.monthlyCost)

\* body of the second loop, for the entries of beforeResources that pass its test
ClassifyRemoved(beforeResource) ==
  ResourceChange(beforeResource.resourceId, beforeResource.resourceType, "removed",
                 beforeResource.monthlyCost, 0, -beforeResource.monthlyCost)

\* resourceChanges before the sort: first loop, then second loop
UnsortedChanges(beforeResources, afterResources) ==
  [i \in DOMAIN afterResources |-> ClassifyAfter(afterResources[i], beforeResources)]
  \o [i \in DOMAIN SelectSeq(beforeResources, LAMBDA b : ~MapHas(afterResources, b.resourceId)) |->
        ClassifyRemoved(SelectSeq(beforeResources,
                                  LAMBDA b : ~MapHas(afterResources, b.resourceId))[i])]

\* a comparator on the signed differences
SortComparator_Signed(a, b) == b.costDifference - a.costDifference

\* the comparator (a, b) => Math.abs(b.costDifference) - Math.abs(a.costDifference)
SortComparator(a, b) == Abs(b.costDifference) - Abs(a.costDifference)

\* insert x after every element that does not compare greater than it
RECURSIVE InsertSorted(_, _)
InsertSorted(sorted, x) ==
  IF sorted = << >> THEN << x >>
  ELSE IF SortComparator(sorted[Len(sorted)], x) <= 0
  THEN Append(sorted, x)
  ELSE Append(InsertSorted(SubSeq(sorted, 1, Len(sorted) - 1), x), sorted[Len(sorted)])

\* Array.prototype.sort with SortComparator (a stable sort)
RECURSIVE SortChanges(_)
SortChanges(cs) ==
  IF cs = << >> THEN << >>
  ELSE InsertSorted(SortChanges(SubSeq(cs, 1, Len(cs) - 1)), cs[Len(cs)])

\* a percentage without the factor 100
PercentageChange_NoScale(costDifference, beforeTotal) ==
  IF beforeTotal > 0 THEN Frac(costDifference, beforeTotal)
  ELSE IF costDifference > 0 THEN Frac(100, 1) ELSE Frac(0, 1)

\* a percentage that is 0 whenever the before total is not positive
PercentageChange_ZeroBase(costDifference, beforeTotal) ==
  IF beforeTotal > 0 THEN Frac(costDifference * 100, beforeTotal) ELSE Frac(0, 1)

PercentageChange(costDifference, beforeTotal) ==
  IF beforeTotal > 0 THEN Frac(costDifference * 100, beforeTotal)
  ELSE IF costDifference > 0 THEN Frac(100, 1) ELSE Frac(0, 1)

compareEstimates(b, a) ==
  LET beforeResources == MapOf(b.resources)
      afterResources == MapOf(a.resources)
      resourceChanges == SortChanges(UnsortedChanges(beforeResources, afterResources))
      costDifference == a.totalMonthlyCost - b.totalMonthlyCost
  IN [stackName |-> a.stackName, before |-> b, after |-> a,
      costDifference |-> costDifference,
      percentageChange |-> PercentageChange(costDifference, b.totalMonthlyCost),
      resourceChanges |-> resourceChanges]

(***************************************************************************)
(* DiffCalculator.getSummaryStats and getSignificantChanges                *)
(***************************************************************************)
EmptyStats ==
  [totalAdded |-> 0, totalRemoved |-> 0, totalModified |-> 0, totalUnchanged |-> 0,
   addedCost |-> 0, removedCost |-> 0, modifiedCostChange |-> 0]

\* a switch whose removed case adds the signed difference
SummaryStep_SignedRemoved(st, change) ==
  CASE change.changeType = "added" ->
         [st EXCEPT !.totalAdded = @ + 1, !.addedCost = @ + change.costDifference]
    [] change.changeType = "removed" ->
         [st EXCEPT !.totalRemoved = @ + 1, !.removedCost = @ + change.costDifference]
    [] change.changeType = "modified" ->
         [st EXCEPT !.totalModified = @ + 1,
                    !.modifiedCostChange = @ + change.costDifference]
    [] change.changeType = "unchanged" ->
         [st EXCEPT !.totalUnchanged = @ + 1]
    [] OTHER -> st

\* the switch on change.changeType inside the loop of getSummaryStats
SummaryStep(st, change) ==
  CASE change.changeType = "added" ->
         [st EXCEPT !.totalAdded = @ + 1, !.addedCost = @ + change.costDifference]
    [] change.changeType = "removed" ->
         [st EXCEPT !.totalRemoved = @ + 1,
                    !.removedCost = @ + Abs(change.costDifference)]
    [] change.changeType = "modified" ->
         [st EXCEPT !.totalModified = @ + 1,
                    !.modifiedCostChange = @ + change.costDifference]
    [] change.changeType = "unchanged" ->
         [st EXCEPT !.totalUnchanged = @ + 1]
    [] OTHER -> st

\* for (const change of comparison.resourceChanges) { switch ... }
RECURSIVE SummaryLoop(_, _)
SummaryLoop(st, changes) ==
  IF changes = << >> THEN st
  ELSE SummaryLoop(SummaryStep(st, Head(changes)), Tail(changes))

getSummaryStats(c) == SummaryLoop(EmptyStats, c.resourceChanges)

\* the literal 0.01 of getSignificantChanges, in units of 0.0001 USD
SignificantThreshold == 100

\* a filter whose threshold test is >= instead of >
getSignificantChanges_Ge(c) ==
  SelectSeq(c.resourceChanges,
            LAMBDA change : /\ change.changeType # "unchanged"
                            /\ Abs(change.costDifference) >= SignificantThreshold)

getSignificantChanges(c) ==
  SelectSeq(c.resourceChanges,
            LAMBDA change : /\ change.changeType # "unchanged"
                            /\ Abs(change.costDifference) > SignificantThreshold)

(***************************************************************************)
(* OutputFormatter (src/src/output-formatter.ts)                           *)
(***************************************************************************)
\* The text that a format call returns is held as the sequence of the
\* resourceIds of its rows, in the order they are written.
OutputFormats == {"table", "json", "markdown", "github"}

NoRendering == [call |-> "none", format |-> "none", rows |-> << >>]

\* insert x after every element whose monthlyCost is not below its own
RECURSIVE InsertByCost(_, _)
InsertByCost(sorted, x) ==
  IF sorted = << >> THEN << x >>
  ELSE IF x.monthlyCost - sorted[Len(sorted)].monthlyCost <= 0
  THEN Append(sorted, x)
  ELSE Append(InsertByCost(SubSeq(sorted, 1, Len(sorted) - 1), x), sorted[Len(sorted)])

\* resources.sort((a, b) => b.monthlyCost - a.monthlyCost): the array itself
\* is reordered (a stable sort) and returned
RECURSIVE SortByCost(_)
SortByCost(rs) ==
  IF rs = << >> THEN << >>
  ELSE InsertByCost(SortByCost(SubSeq(rs, 1, Len(rs) - 1)), rs[Len(rs)])

RowsOf(rs) == [i \in DOMAIN rs |-> rs[i].resourceId]

\* array.slice(0, n)
SliceTo(rs, n) == SubSeq(rs, 1, IF Len(rs) < n THEN Len(rs) ELSE n)

\* formatEstimate(estimate, format): the estimate object as the call leaves
\* it, and the rows of the text.  formatEstimateGitHub is
\* formatEstimateMarkdown; the table and the markdown text are written from
\* estimate.resources.sort(...) when the list is not empty.
formatEstimate(e, format) ==
  IF format = "json" THEN [estimate |-> e, rows |-> RowsOf(e.resources)]
  ELSE IF Len(e.resources) > 0
  THEN [estimate |-> [e EXCEPT !.resources = SortByCost(e.resources)],
        rows |-> RowsOf(SortByCost(e.resources))]
  ELSE [estimate |-> e, rows |-> << >>]

\* formatComparison(comparison, format): the rows are the significant
\* changes, the first 20, 30 or 50 of them
formatComparison(c, format) ==
  IF format = "json" THEN [comparison |-> c, rows |-> RowsOf(c.resourceChanges)]
  ELSE [comparison |-> c,
        rows |-> RowsOf(SliceTo(getSignificantChanges(c),
                                CASE format = "table" -> 20
                                  [] format = "markdown" -> 30
                                  [] format = "github" -> 50))]

(***************************************************************************)
(* Inputs                                                                  *)
(***************************************************************************)
ResourceIds == {"A", "B", "1"}

\* the Parameters section shared by the templates of the model
TemplateParameters ==
  Obj("InstType" :> Obj("Type" :> Str("String") @@ "Default" :> Str("m5.large")))

Resource(type, properties) == [Type |-> type, Properties |-> properties]

\* gp3 volume of 5 GB with the given provisioned IOPS
Gp3Volume(iops) ==
  Resource("AWS::EC2::Volume",
           Obj("VolumeType" :> Str("GP3") @@ "Size" :> Num(5) @@ "Iops" :> Num(iops)))

\* Resource declarations handed to calculateStackCost: every dispatch branch,
\* both type-set overlaps, a calculator and an estimator that throw, an
\* estimator with no case, and an entry that is not a resource.
StackDecls ==
  { Resource("AWS::IAM::Role", Undefined),
    Resource("Custom::Thing", EmptyObj),
    Resource("AWS::SNS::Topic", EmptyObj),
    Resource("AWS::EC2::Instance", Obj("InstanceType" :> Obj("Ref" :> Str("InstType")))),
    Resource("AWS::AutoScaling::AutoScalingGroup", Obj("DesiredCapacity" :> Num(-1))),
    Gp3Volume(3001),
    Resource("AWS::EC2::Volume", Obj("VolumeType" :> Num(5))),
    Resource("AWS::Kinesis::Stream", Undefined),
    Resource("AWS::EC2::NatGateway", EmptyObj),
    Resource("AWS::S3::Bucket", EmptyObj),
    Resource("AWS::SQS::Queue", Obj("QueueName" :> Str("jobs.fifo"))),
    Resource("AWS::SQS::Queue",
             Obj("QueueName" :> Obj("Fn::Sub" :> Str("${AWS::StackName}-jobs")))),
    Resource("AWS::Firehose::DeliveryStream", EmptyObj),
    Resource("AWS::Foo::Bar", EmptyObj),
    [Properties |-> EmptyObj] }

\* Resource declarations of the estimates handed to compareEstimates: monthly
\* costs 4000, 4050 and 4150 (0.40, 0.405 and 0.415 USD: apart by less than,
\* exactly and more than one cent, across two resource types), a negative
\* cost (a desired capacity of -1) and an EC2 instance of the default type.
DiffDecls ==
  { Resource("AWS::SQS::Queue", EmptyObj),
    Gp3Volume(3001),
    Gp3Volume(3003),
    Resource("AWS::AutoScaling::AutoScalingGroup", Obj("DesiredCapacity" :> Num(-1))),
    Resource("AWS::EC2::Instance", EmptyObj) }

\* gp3 volume of 0 GB with the given provisioned IOPS: only the IOPS above
\* 3000 are charged, 0.005 USD each
SmallVolume(iops) ==
  Resource("AWS::EC2::Volume",
           Obj("VolumeType" :> Str("gp3") @@ "Size" :> Num(0) @@ "Iops" :> Num(iops)))

\* Resource declarations of the comparisons handed to the report functions:
\* monthly costs 50 and 100 (half a cent and exactly one cent) and a negative
\* cost.
ReportDecls ==
  { SmallVolume(3001),
    SmallVolume(3002),
    Resource("AWS::AutoScaling::AutoScalingGroup", Obj("DesiredCapacity" :> Num(-1))) }

\* all templates of at most MaxResources entries with distinct logical ids
TemplatesOf(decls) ==
  UNION { { [Parameters |-> TemplateParameters,
             Resources |-> [i \in 1..n |-> [logicalId |-> ids[i], resource |-> ds[i]]]] :
            ids \in {f \in [1..n -> ResourceIds] : \A i, j \in 1..n : f[i] = f[j] => i = j},
            ds \in [1..n -> decls] } :
          n \in 0..MaxResources }

StackTemplates == TemplatesOf(StackDecls)

DiffTemplates == TemplatesOf(DiffDecls)

ReportTemplates == TemplatesOf(ReportDecls)

NoTemplate == [Parameters |-> Undefined, Resources |-> << >>]

(***************************************************************************)
(* Specification of calculateStackCost                                     *)
(***************************************************************************)
Init ==
  /\ template = NoTemplate
  /\ outcome = "none"
  /\ estimate = Null
  /\ calls = << >>
  /\ before = EmptyEstimate("stack", "deployed")
  /\ after = EmptyEstimate("stack", "synthesized")
  /\ comparison = Null
  /\ stage = "start"
  /\ beforeTemplate = Undefined
  /\ reversed = Null
  /\ stats = Null
  /\ significant = << >>
  /\ propertyCall = Null
  /\ propertyResult = Undefined
  /\ resolveCall = Null
  /\ resolveResult = Undefined
  /\ pricingHeap = << US_EAST_1_PRICING >>
  /\ lookups = << >>
  /\ priced = << >>
  /\ parserCall = Null
  /\ parserResult = Null
  /\ literalRun = Null
  /\ referenceRun = Null
  /\ rendered = NoRendering

\* The set whose one element is v. The comparison brings v to its normal
\* form where the set is built, so that every step that takes v from the
\* set reads the same finished value.
Only(v) == {x \in {v} : x = x}

\* new CostCalculator().calculateStackCost("stack", t, "local")
CalculateStackCost ==
  \E t \in StackTemplates :
    \E r \in Only(calculateStackCost("stack", t, "local", US_EAST_1_PRICING)) :
       /\ outcome = "none"
       /\ template' = t
       /\ outcome' = IF r.threw THEN "threw" ELSE "returned"
       /\ estimate' = IF r.threw THEN Null ELSE r.estimate
       /\ calls' = r.calls
       /\ UNCHANGED <<before, after, comparison, stage, beforeTemplate>>
       /\ UNCHANGED <<reportVars, propertyVars>>
       /\ UNCHANGED moduleVars

Next == CalculateStackCost

Spec == Init /\ [][Next]_vars

(***************************************************************************)
(* Specification of compareEstimates, reached as compareTemplates does     *)
(***************************************************************************)
\* const before = beforeTemplate ? calculateStackCost(stackName, beforeTemplate,
\* beforeSource) : { ...empty estimate... }, for a beforeTemplate drawn from
\* the given set
EstimateBeforeOf(templates) ==
  \E t \in templates :
    \E r \in Only(IF t = Null
                 THEN [threw |-> FALSE, estimate |-> EmptyEstimate("stack", "deployed")]
                 ELSE calculateStackCost("stack", t, "deployed", US_EAST_1_PRICING)) :
       /\ stage = "start"
       /\ ~r.threw
       /\ beforeTemplate' = t
       /\ before' = r.estimate
       /\ stage' = "before"
       /\ UNCHANGED comparison
       /\ UNCHANGED <<template, outcome, estimate, calls, after>>
       /\ UNCHANGED <<reportVars, propertyVars>>
       /\ UNCHANGED moduleVars

\* after = calculateStackCost(stackName, afterTemplate, 'synthesized'), for an
\* afterTemplate drawn from the given set
EstimateAfterOf(templates) ==
  \E t \in templates :
    \E r \in Only(calculateStackCost("stack", t, "synthesized", US_EAST_1_PRICING)) :
       /\ stage = "before"
       /\ ~r.threw
       /\ after' = r.estimate
       /\ stage' = "after"
       /\ UNCHANGED comparison
       /\ UNCHANGED <<template, outcome, estimate, calls, before, beforeTemplate>>
       /\ UNCHANGED <<reportVars, propertyVars>>
       /\ UNCHANGED moduleVars

EstimateBefore == EstimateBeforeOf(DiffTemplates \cup {Null})

EstimateAfter == EstimateAfterOf(DiffTemplates)

CompareEstimates ==
  /\ stage = "after"
  /\ comparison' = compareEstimates(before, after)
  /\ stage' = "compared"
  /\ UNCHANGED <<template, outcome, estimate, calls, before, after, beforeTemplate>>
  /\ UNCHANGED <<reportVars, propertyVars>>
  /\ UNCHANGED moduleVars

NextDiff == EstimateBefore \/ EstimateAfter \/ CompareEstimates

SpecDiff == Init /\ [][NextDiff]_vars

(***************************************************************************)
(* Specification of the report functions, applied to the comparison of two *)
(* estimates                                                               *)
(***************************************************************************)
ReportBefore == EstimateBeforeOf(ReportTemplates)

ReportAfter == EstimateAfterOf(ReportTemplates)

\* compareEstimates(after, before): the two arguments exchanged
CompareReversed ==
  /\ stage = "compared"
  /\ \E r \in {compareEstimates(after, before)} : reversed' = r
  /\ stage' = "reversed"
  /\ UNCHANGED <<template, outcome, estimate, calls, before, after, comparison>>
  /\ UNCHANGED <<beforeTemplate, stats, significant, propertyVars>>
  /\ UNCHANGED moduleVars

GetSummaryStats ==
  /\ stage = "compared"
  /\ \E r \in {getSummaryStats(comparison)} : stats' = r
  /\ stage' = "summarized"
  /\ UNCHANGED <<template, outcome, estimate, calls, before, after, comparison>>
  /\ UNCHANGED <<beforeTemplate, reversed, significant, propertyVars>>
  /\ UNCHANGED moduleVars

GetSignificantChanges ==
  /\ stage = "compared"
  /\ \E r \in {getSignificantChanges(comparison)} : significant' = r
  /\ stage' = "significant"
  /\ UNCHANGED <<template, outcome, estimate, calls, before, after, comparison>>
  /\ UNCHANGED <<beforeTemplate, reversed, stats, propertyVars>>
  /\ UNCHANGED moduleVars

NextReport ==
  \/ ReportBefore
  \/ ReportAfter
  \/ CompareEstimates
  \/ CompareReversed
  \/ GetSummaryStats
  \/ GetSignificantChanges

SpecReport == Init /\ [][NextReport]_vars

(***************************************************************************)
(* Specification of TemplateParser.getPropertyValue                        *)
(***************************************************************************)
\* Property values: scalars, null, lists, nested records, and every
\* intrinsic of resolveBasicIntrinsics in a form it rewrites and in a form
\* it does not.
PropertyValues ==
  { Num(5), Num(0), Str("x"), Str(""), Bool(FALSE), Null,
    Obj("Q" :> Num(7)),
    Obj("Q" :> Null),
    Obj("Q" :> Obj("Ref" :> Str("InstType"))),
    Arr(<< Num(1), Obj("Ref" :> Str("InstType")) >>),
    Arr(<< Obj("Q" :> Num(7)) >>),
    Obj("Ref" :> Str("InstType")),
    Obj("Ref" :> Str("Nope")),
    Obj("Ref" :> Num(5)),
    Obj("Fn::GetAtt" :> Arr(<< Str("A"), Str("Arn") >>)),
    Obj("Fn::GetAtt" :> Str("A.Arn")),
    Obj("Fn::Sub" :> Str("${X}-q")),
    Obj("Fn::Sub" :> Arr(<< Str("${X}-q"), Obj("X" :> Str("v")) >>)),
    Obj("Fn::If" :> Arr(<< Str("Cond"), Num(1), Num(2) >>)),
    Obj("Fn::If" :> Arr(<< Str("Cond") >>)),
    Obj("Fn::Select" :> Arr(<< Num(1), Arr(<< Str("a"), Str("b") >>) >>)),
    Obj("Fn::Select" :> Arr(<< Num(5), Arr(<< Str("a"), Str("b") >>) >>)),
    Obj("Fn::Select" :> Arr(<< Str("0"), Arr(<< Str("a"), Str("b") >>) >>)) }

\* the Properties of the resource read: absent, null, empty, not a record,
\* or a record with the one property P
PropertyBags ==
  { Undefined, Null, EmptyObj, Str("oops") } \cup { Obj("P" :> v) : v \in PropertyValues }

\* propertyPath.split('.') of the paths "P", "P.Q", "P.0" and "Missing"
PropertyPaths == { <<"P">>, <<"P", "Q">>, <<"P", "0">>, <<"Missing">> }

\* the defaultValue argument; undefined when the caller leaves it out
PropertyDefaults == { Undefined, Num(100), Str("gp3") }

PropertyTemplate == [Parameters |-> TemplateParameters, Resources |-> << >>]

\* TemplateParser.getPropertyValue(template, resource, propertyPath, defaultValue)
GetPropertyValue ==
  /\ propertyCall = Null
  /\ \E properties \in PropertyBags, propertyPath \in PropertyPaths,
        defaultValue \in PropertyDefaults :
       \E r \in {getPropertyValue(PropertyTemplate, Resource("AWS::EC2::Volume", properties),
                                  propertyPath, defaultValue)} :
         /\ propertyCall' = [properties |-> properties, propertyPath |-> propertyPath,
                             defaultValue |-> defaultValue]
         /\ propertyResult' = r
  /\ UNCHANGED <<template, outcome, estimate, calls, before, after, comparison, stage>>
  /\ UNCHANGED <<beforeTemplate, reportVars>>
  /\ UNCHANGED moduleVars

NextProperty == GetPropertyValue

SpecProperty == Init /\ [][NextProperty]_vars

(***************************************************************************)
(* Specification of resolveBasicIntrinsics on a reference                  *)
(***************************************************************************)
\* the Parameters section of the template: absent, empty, or declaring Env
\* without a default and with the defaults "dev", 0 and null
ParameterSections ==
  { Undefined, EmptyObj,
    Obj("Env" :> Obj("Type" :> Str("String"))),
    Obj("Env" :> Obj("Type" :> Str("String") @@ "Default" :> Str("dev"))),
    Obj("Env" :> Obj("Type" :> Str("Number") @@ "Default" :> Num(0))),
    Obj("Env" :> Obj("Type" :> Str("String") @@ "Default" :> Null)) }

ReferenceNames == { "Env", "Other", "AWS::Region" }

\* the context argument: left out, empty, or with a parameters record
ResolveContexts ==
  { Undefined, EmptyObj,
    Obj("parameters" :> EmptyObj),
    Obj("parameters" :> Obj("Env" :> Str("prod"))),
    Obj("parameters" :> Obj("Env" :> Str(""))),
    Obj("parameters" :> Obj("Env" :> Null)),
    Obj("parameters" :> Obj("Other" :> Str("x"))),
    Obj("parameters" :> Obj("AWS::Region" :> Str("eu-west-1"))) }

\* TemplateParser.resolveBasicIntrinsics(template, { Ref: refName }, context)
ResolveReference ==
  /\ resolveCall = Null
  /\ \E parameters \in ParameterSections, refName \in ReferenceNames,
        context \in ResolveContexts :
       \E r \in {resolveBasicIntrinsics([Parameters |-> parameters, Resources |-> << >>],
                                        Obj("Ref" :> Str(refName)), context)} :
         /\ resolveCall' = [parameters |-> parameters, refName |-> refName,
                            context |-> context]
         /\ resolveResult' = r
  /\ UNCHANGED <<stackVars, diffVars, reportVars, propertyVars>>
  /\ UNCHANGED <<pricingVars, parserVars, runVars, rendered>>

NextResolve == ResolveReference

SpecResolve == Init /\ [][NextResolve]_vars

(***************************************************************************)
(* Specification of TemplateParser.compareTemplates                        *)
(***************************************************************************)
\* Resource declarations handed to TemplateParser.compareTemplates: one type
\* with no Properties, with an empty Properties record and with a property,
\* a second type, and an entry that is not a resource
ParserDecls ==
  { [Type |-> "AWS::SQS::Queue", Properties |-> Undefined],
    Resource("AWS::SQS::Queue", EmptyObj),
    Resource("AWS::SQS::Queue", Obj("DelaySeconds" :> Num(1))),
    Resource("AWS::SNS::Topic", EmptyObj) }

ParserTemplates == TemplatesOf(ParserDecls)

\* TemplateParser.compareTemplates(b, a)
CompareTemplates ==
  /\ parserCall = Null
  /\ \E b \in ParserTemplates, a \in ParserTemplates :
       \E r \in {compareTemplates(b, a)} :
         /\ parserCall' = [before |-> b, after |-> a]
         /\ parserResult' = r
  /\ UNCHANGED <<stackVars, diffVars, reportVars, propertyVars>>
  /\ UNCHANGED <<resolveVars, pricingVars, runVars, rendered>>

NextParser == CompareTemplates

SpecParser == Init /\ [][NextParser]_vars

(***************************************************************************)
(* Specification of calculateStackCost on a template written with literal  *)
(* values and on the same template written with parameter references       *)
(***************************************************************************)
\* the Parameters section of both templates: every parameter has a default
ReferenceParameters ==
  Obj("InstType" :> Obj("Type" :> Str("String") @@ "Default" :> Str("m5.large"))
      @@ "VolSize" :> Obj("Type" :> Str("Number") @@ "Default" :> Num(5))
      @@ "Capacity" :> Obj("Type" :> Str("Number") @@ "Default" :> Num(2))
      @@ "Shards" :> Obj("Type" :> Str("Number") @@ "Default" :> Num(2))
      @@ "NodeType" :> Obj("Type" :> Str("String") @@ "Default" :> Str("m5.large"))
      @@ "QueueName" :> Obj("Type" :> Str("String") @@ "Default" :> Str("jobs.fifo")))

Ref(name) == Obj("Ref" :> Str(name))

\* a resource type with one property, given as the literal v or as the
\* reference to the parameter whose default is v
PropertyCase(type, property, literal, reference) ==
  [literal |-> Resource(type, Obj(property :> literal)),
   reference |-> Resource(type, Obj(property :> reference))]

\* one property read of each calculator and estimator of the model that
\* reads a property
PropertyCases ==
  { PropertyCase("AWS::EC2::Instance", "InstanceType", Str("m5.large"), Ref("InstType")),
    PropertyCase("AWS::EC2::Volume", "Size", Num(5), Ref("VolSize")),
    PropertyCase("AWS::AutoScaling::AutoScalingGroup", "DesiredCapacity", Num(2),
                 Ref("Capacity")),
    PropertyCase("AWS::Kinesis::Stream", "ShardCount", Num(2), Ref("Shards")),
    PropertyCase("AWS::EKS::Nodegroup", "InstanceTypes",
                 Arr(<< Str("m5.large") >>), Arr(<< Ref("NodeType") >>)),
    PropertyCase("AWS::SQS::Queue", "QueueName", Str("jobs.fifo"), Ref("QueueName")) }

\* the template of the chosen cases, written in the given way
WrittenTemplate(ids, cases, way) ==
  [Parameters |-> ReferenceParameters,
   Resources |-> [i \in DOMAIN ids |->
                    [logicalId |-> ids[i], resource |-> cases[i][way]]]]

\* calculateStackCost on the literal template and on the reference template
\* of the same cases
CalculateLiteralAndReference ==
  \E n \in 0..MaxResources :
    \E ids \in {f \in [1..n -> ResourceIds] : \A i, j \in 1..n : f[i] = f[j] => i = j},
       cases \in [1..n -> PropertyCases] :
      \E literal \in Only(WrittenTemplate(ids, cases, "literal")),
         reference \in Only(WrittenTemplate(ids, cases, "reference")) :
        \E l \in Only(calculateStackCost("stack", literal, "local", US_EAST_1_PRICING)),
           r \in Only(calculateStackCost("stack", reference, "local", US_EAST_1_PRICING)) :
          /\ literalRun = Null
          /\ literalRun' = [template |-> literal, result |-> l]
          /\ referenceRun' = [template |-> reference, result |-> r]
          /\ UNCHANGED <<stackVars, diffVars, reportVars, propertyVars>>
          /\ UNCHANGED <<resolveVars, pricingVars, parserVars, rendered>>

NextReference == CalculateLiteralAndReference

SpecReference == Init /\ [][NextReference]_vars

(***************************************************************************)
(* Specification of the format calls on an estimate and on a comparison    *)
(***************************************************************************)
\* Resource declarations of the estimates that are formatted: monthly costs
\* 100 and 15000 (0.01 and 1.50 USD)
FormatDecls == { SmallVolume(3002), SmallVolume(3300) }

FormatTemplates == TemplatesOf(FormatDecls)

FormatBefore == EstimateBeforeOf(FormatTemplates)

FormatAfter == EstimateAfterOf(FormatTemplates)

\* formatter.formatEstimate(after, format), before or after the comparison
\* was made; the comparison holds the estimate object itself
FormatEstimate ==
  /\ stage \in {"after", "compared"}
  /\ \E format \in OutputFormats :
       \E r \in {formatEstimate(after, format)} :
         /\ after' = r.estimate
         /\ comparison' = IF stage = "compared"
                          THEN [comparison EXCEPT !.after = r.estimate]
                          ELSE comparison
         /\ rendered' = [call |-> "formatEstimate", format |-> format, rows |-> r.rows]
  /\ UNCHANGED <<stackVars, before, stage, beforeTemplate, reportVars, propertyVars>>
  /\ UNCHANGED <<resolveVars, pricingVars, parserVars, runVars>>

\* formatter.formatComparison(comparison, format)
FormatComparison ==
  /\ stage = "compared"
  /\ \E format \in OutputFormats :
       \E r \in {formatComparison(comparison, format)} :
         /\ comparison' = r.comparison
         /\ rendered' = [call |-> "formatComparison", format |-> format, rows |-> r.rows]
  /\ UNCHANGED <<stackVars, before, after, stage, beforeTemplate, reportVars, propertyVars>>
  /\ UNCHANGED <<resolveVars, pricingVars, parserVars, runVars>>

NextFormat ==
  \/ FormatBefore
  \/ FormatAfter
  \/ CompareEstimates
  \/ FormatEstimate
  \/ FormatComparison

SpecFormat == Init /\ [][NextFormat]_vars

(***************************************************************************)
(* Specification of the pricing lookups and of the calculators built on    *)
(* them                                                                    *)
(***************************************************************************)
\* regions with their own factor, a region with factor 1.0, regions the
\* multiplier table does not hold, and a name that Object.prototype holds
PricingRegions ==
  { "us-east-1", "us-west-2", "eu-west-1", "sa-east-1", "mars-north-1", "constructor" }

\* templates priced by the calculators: an instance and a NAT gateway, a
\* volume
PricingTemplates ==
  { [Parameters |-> TemplateParameters,
     Resources |-> << [logicalId |-> "A",
                       resource |-> Resource("AWS::EC2::Instance",
                                             Obj("InstanceType" :> Str("m5.large")))],
                      [logicalId |-> "B",
                       resource |-> Resource("AWS::EC2::NatGateway", EmptyObj)] >>],
    [Parameters |-> TemplateParameters,
     Resources |-> << [logicalId |-> "A",
                       resource |-> Resource("AWS::EC2::Volume",
                                             Obj("VolumeType" :> Str("gp2")))] >>] }

\* new CostCalculator(region): this.region = region;
\* this.pricing = getRegionalPricing(region)
NewCostCalculator ==
  /\ Len(lookups) < MaxCalculators
  /\ \E region \in PricingRegions :
       \E r \in {getRegionalPricing(pricingHeap, region)} :
         /\ pricingHeap' = r.heap
         /\ lookups' = Append(lookups, [region |-> region, table |-> r.table])
         /\ priced' = Append(priced, Null)
  /\ UNCHANGED <<stackVars, diffVars, reportVars, propertyVars>>
  /\ UNCHANGED <<resolveVars, parserVars, runVars, rendered>>

\* the value of the table object that getRegionalPricing returns for a
\* region in a process whose base table holds US_EAST_1_PRICING
RegionalTable(region) ==
  IF region = "us-east-1" THEN US_EAST_1_PRICING
  ELSE applyMultiplier(US_EAST_1_PRICING, RegionMultiplier(region))

\* calculateStackCost on the k-th calculator, which prices with the table
\* object its constructor stored; the value that object holds is one of the
\* regional tables
PriceStack ==
  \E t \in {x \in PricingTemplates : x = x}, region \in PricingRegions :
    \E r \in Only(calculateStackCost("stack", t, "local", RegionalTable(region))) :
      \E k \in DOMAIN lookups :
        /\ priced[k] = Null
        /\ pricingHeap[lookups[k].table] = RegionalTable(region)
        /\ priced' = [priced EXCEPT ![k] = [template |-> t, result |-> r]]
        /\ UNCHANGED <<pricingHeap, lookups>>
        /\ UNCHANGED <<stackVars, diffVars, reportVars, propertyVars>>
        /\ UNCHANGED <<resolveVars, parserVars, runVars, rendered>>

NextPricing == NewCostCalculator \/ PriceStack

SpecPricing == Init /\ [][NextPricing]_vars

(***************************************************************************)
(* Properties of calculateStackCost (specification Spec)                   *)
(***************************************************************************)
\* the resourceIds that occur in a list of ResourceCost or UnsupportedResource
ResourceIdsOf(rs) == { rs[i].resourceId : i \in DOMAIN rs }

\* sum of a field over a set of indices of a sequence, element by element
RECURSIVE SumOver(_, _, _)
SumOver(rs, indices, field) ==
  IF indices = {} THEN 0
  ELSE LET i == CHOOSE j \in indices : TRUE
       IN rs[i][field] + SumOver(rs, indices \ {i}, field)

\* a type is free by the known-identifier set or by the Custom:: prefix
FreeType(type) ==
  type \in FREE_RESOURCES \/ (Len(type) >= 8 /\ SubSeq(type, 1, 8) = "Custom::")

\* the resources of the template under calculation
Extracted == extractResources(template)

\* C2: the estimate's totalMonthlyCost is the sum of monthlyCost over its
\* resources list and its totalHourlyCost the sum of hourlyCost over it; what
\* is skipped as free or listed as unsupported adds nothing.
C2_TotalsAreSums ==
  outcome = "returned" =>
    /\ estimate.totalMonthlyCost
         = SumOver(estimate.resources, DOMAIN estimate.resources, "monthlyCost")
    /\ estimate.totalHourlyCost
         = SumOver(estimate.resources, DOMAIN estimate.resources, "hourlyCost")

\* a priced resource next to an unsupported one
C2_Witness ==
  /\ outcome = "returned"
  /\ Len(estimate.resources) = 1
  /\ Len(estimate.unsupportedResources) = 1
  /\ estimate.totalMonthlyCost # 0

\* C3: calculateStackCost never throws, whichever calculator or estimator
\* fails on a resource.
C3_NeverThrows == outcome # "threw"

\* the template entries whose registry calculator throws
ThrowingEntries ==
  { i \in DOMAIN Extracted :
      /\ ~FreeType(Extracted[i].resource.Type)
      /\ Extracted[i].resource.Type \in RegisteredTypes
      /\ Calculator(Extracted[i].resource.Type, Extracted[i].logicalId,
                    Extracted[i].resource, template, US_EAST_1_PRICING).threw }

\* C4: a resource whose registry calculator throws is listed exactly once in
\* unsupportedResources with reason "Calculation error: <message>", has no
\* ResourceCost, adds nothing to the totals, and its calculator ran once.
C4_CalculatorErrorIsolated ==
  outcome = "returned" =>
    \A i \in ThrowingEntries :
      LET id == Extracted[i].logicalId
          r == Calculator(Extracted[i].resource.Type, id, Extracted[i].resource,
                          template, US_EAST_1_PRICING)
          u == estimate.unsupportedResources
      IN /\ Cardinality({ k \in DOMAIN u : u[k].resourceId = id }) = 1
         /\ \A k \in DOMAIN u :
              u[k].resourceId = id =>
                /\ u[k].reason = "Calculation error: " \o r.message
                /\ u[k].resourceType = Extracted[i].resource.Type
         /\ id \notin ResourceIdsOf(estimate.resources)
         /\ estimate.totalMonthlyCost
              = SumOver(estimate.resources,
                        { k \in DOMAIN estimate.resources :
                            estimate.resources[k].resourceId # id }, "monthlyCost")
         /\ Cardinality({ k \in DOMAIN calls : calls[k] = id }) = 1

\* a throwing calculator on the first resource, a priced resource after it
C4_Witness ==
  /\ outcome = "returned"
  /\ 1 \in ThrowingEntries
  /\ Len(estimate.resources) = 1
  /\ Len(estimate.unsupportedResources) = 1

UnknownEntries ==
  { i \in DOMAIN Extracted :
      /\ ~FreeType(Extracted[i].resource.Type)
      /\ Extracted[i].resource.Type \notin RegisteredTypes
      /\ Extracted[i].resource.Type \notin USAGE_BASED_RESOURCES }

\* C6: a resource of a type that is not free, has no calculator and is not
\* usage-based is listed exactly once in unsupportedResources with the fixed
\* reason, is not in resources, and adds nothing to the totals.
C6_UnknownTypeUnsupported ==
  outcome = "returned" =>
    \A i \in UnknownEntries :
      LET id == Extracted[i].logicalId
          u == estimate.unsupportedResources
      IN /\ Cardinality({ k \in DOMAIN u : u[k].resourceId = id }) = 1
         /\ \A k \in DOMAIN u :
              u[k].resourceId = id =>
                u[k].reason = "No pricing calculator available for this resource type"
         /\ id \notin ResourceIdsOf(estimate.resources)
         /\ estimate.totalMonthlyCost
              = SumOver(estimate.resources,
                        { k \in DOMAIN estimate.resources :
                            estimate.resources[k].resourceId # id }, "monthlyCost")

\* an unknown type next to a priced resource
C6_Witness ==
  /\ outcome = "returned"
  /\ UnknownEntries # {}
  /\ Len(estimate.resources) = 1
  /\ estimate.totalMonthlyCost # 0

(***************************************************************************)
(* Properties of compareEstimates (specification SpecDiff)                 *)
(***************************************************************************)
BeforeIds == ResourceIdsOf(before.resources)

AfterIds == ResourceIdsOf(after.resources)

\* monthly cost of the resource of estimate e that carries the id
MonthlyCostOf(e, id) ==
  e.resources[CHOOSE i \in DOMAIN e.resources : e.resources[i].resourceId = id].monthlyCost

ResourceTypeOf(e, id) ==
  e.resources[CHOOSE i \in DOMAIN e.resources : e.resources[i].resourceId = id].resourceType

Changes == comparison.resourceChanges

\* C1: one ResourceChange per resourceId of either estimate and none for any
\* other id, matched by id alone: only in after -> added (beforeCost 0,
\* costDifference = afterCost); only in before -> removed (afterCost 0,
\* costDifference = -beforeCost); in both -> modified if the costs differ by
\* more than 0.01, unchanged otherwise.
C1_OneChangePerId ==
  stage = "compared" =>
    /\ \A i \in DOMAIN Changes : Changes[i].resourceId \in BeforeIds \cup AfterIds
    /\ \A id \in BeforeIds \cup AfterIds :
         Cardinality({ i \in DOMAIN Changes : Changes[i].resourceId = id }) = 1
    /\ \A i \in DOMAIN Changes :
         LET c == Changes[i]
             id == c.resourceId
         IN /\ id \in AfterIds \ BeforeIds =>
                 /\ c.changeType = "added"
                 /\ c.beforeCost = 0
                 /\ c.afterCost = MonthlyCostOf(after, id)
                 /\ c.costDifference = c.afterCost
            /\ id \in BeforeIds \ AfterIds =>
                 /\ c.changeType = "removed"
                 /\ c.afterCost = 0
                 /\ c.beforeCost = MonthlyCostOf(before, id)
                 /\ c.costDifference = -c.beforeCost
            /\ id \in BeforeIds \cap AfterIds =>
                 c.changeType =
                   IF Abs(MonthlyCostOf(after, id) - MonthlyCostOf(before, id)) > CentThreshold
                   THEN "modified" ELSE "unchanged"

\* an id added, an id removed, and an id in both whose resource type changed
C1_Witness ==
  /\ stage = "compared"
  /\ AfterIds \ BeforeIds # {}
  /\ BeforeIds \ AfterIds # {}
  /\ \E id \in BeforeIds \cap AfterIds :
       ResourceTypeOf(before, id) # ResourceTypeOf(after, id)

\* C7: an unchanged entry has costDifference 0 whatever the raw difference of
\* its costs, and costs that differ by at most 0.01 (0.01 itself included)
\* are classified unchanged.
C7_UnchangedIsZero ==
  stage = "compared" =>
    /\ \A i \in DOMAIN Changes :
         Changes[i].changeType = "unchanged" => Changes[i].costDifference = 0
    /\ \A id \in BeforeIds \cap AfterIds :
         Abs(MonthlyCostOf(after, id) - MonthlyCostOf(before, id)) <= CentThreshold =>
           \E i \in DOMAIN Changes :
             /\ Changes[i].resourceId = id
             /\ Changes[i].changeType = "unchanged"
             /\ Changes[i].costDifference = 0

\* one unchanged entry whose costs differ by exactly 0.01 and one whose costs
\* differ by less, but not by 0
C7_Witness ==
  /\ stage = "compared"
  /\ \E i \in DOMAIN Changes :
       /\ Changes[i].changeType = "unchanged"
       /\ Abs(Changes[i].afterCost - Changes[i].beforeCost) = CentThreshold
  /\ \E i \in DOMAIN Changes :
       /\ Changes[i].changeType = "unchanged"
       /\ Abs(Changes[i].afterCost - Changes[i].beforeCost) \in 1..(CentThreshold - 1)

\* C8 as stated: every ResourceChange, of every change type, has
\* costDifference = afterCost - beforeCost.
C8_DifferenceOfCosts ==
  stage = "compared" =>
    \A i \in DOMAIN Changes :
      Changes[i].costDifference = Changes[i].afterCost - Changes[i].beforeCost

\* C8 as amended: an added, removed or modified entry has
\* costDifference = afterCost - beforeCost; an unchanged entry has
\* costDifference 0, also when afterCost - beforeCost is not 0.
C8_DifferenceUnlessUnchanged ==
  stage = "compared" =>
    \A i \in DOMAIN Changes :
      Changes[i].costDifference =
        IF Changes[i].changeType = "unchanged" THEN 0
        ELSE Changes[i].afterCost - Changes[i].beforeCost

\* an added, a removed and a modified entry in one comparison
C8_Witness ==
  /\ stage = "compared"
  /\ \A type \in {"added", "removed", "modified"} :
       \E i \in DOMAIN Changes :
         /\ Changes[i].changeType = type
         /\ Changes[i].costDifference # 0

RECURSIVE Gcd(_, _)
Gcd(a, b) == IF b = 0 THEN a ELSE Gcd(b, a % b)

\* the fraction n / d (d # 0) in lowest terms with a positive denominator
Reduced(n, d) ==
  LET g == Gcd(Abs(n), Abs(d))
      sign == IF d < 0 THEN -1 ELSE 1
  IN [num |-> sign * (n \div g), den |-> sign * (d \div g)]

\* the percentage p equals the number n / d (d # 0)
IsRatio(p, n, d) == p.den # 0 /\ Reduced(p.num, p.den) = Reduced(n, d)

TotalDifference == after.totalMonthlyCost - before.totalMonthlyCost

\* C9 as stated: percentageChange is 0 when both totals are 0, 100 when the
\* before total is 0 and the after total is positive, and
\* costDifference / before.totalMonthlyCost * 100 in every other case.
C9_PercentageChange ==
  stage = "compared" =>
    /\ comparison.costDifference = TotalDifference
    /\ IF before.totalMonthlyCost = 0 /\ after.totalMonthlyCost = 0
       THEN IsRatio(comparison.percentageChange, 0, 1)
       ELSE IF before.totalMonthlyCost = 0 /\ after.totalMonthlyCost > 0
       THEN IsRatio(comparison.percentageChange, 100, 1)
       ELSE /\ before.totalMonthlyCost # 0
            /\ IsRatio(comparison.percentageChange,
                       TotalDifference * 100, before.totalMonthlyCost)

\* C9 as amended: percentageChange is costDifference / before.totalMonthlyCost
\* * 100 when the before total is positive; when the before total is 0 or
\* negative it is 100 if costDifference is positive and 0 otherwise.
C9_PercentageChangeGuarded ==
  stage = "compared" =>
    /\ comparison.costDifference = TotalDifference
    /\ IF before.totalMonthlyCost > 0
       THEN IsRatio(comparison.percentageChange,
                    TotalDifference * 100, before.totalMonthlyCost)
       ELSE IF TotalDifference > 0
       THEN IsRatio(comparison.percentageChange, 100, 1)
       ELSE IsRatio(comparison.percentageChange, 0, 1)

\* a comparison whose before total is negative and whose total grows
C9_Witness ==
  /\ stage = "compared"
  /\ before.totalMonthlyCost < 0
  /\ TotalDifference > 0
  /\ comparison.percentageChange = Frac(100, 1)

\* C10: resourceChanges is in order of non-increasing |costDifference|.
C10_SortedByMagnitude ==
  stage = "compared" =>
    \A i, j \in DOMAIN Changes :
      i < j => Abs(Changes[i].costDifference) >= Abs(Changes[j].costDifference)

\* three entries of distinct magnitude, led by a negative difference that
\* the loops of compareEstimates produced last
C10_Witness ==
  /\ stage = "compared"
  /\ Len(Changes) = 3
  /\ Changes[1].changeType = "removed"
  /\ Changes[1].costDifference < 0
  /\ Changes[2].costDifference > 0
  /\ Abs(Changes[1].costDifference) > Abs(Changes[2].costDifference)
  /\ Abs(Changes[2].costDifference) > Abs(Changes[3].costDifference)

\* C12: compareTemplates with a null before-template compares against an
\* empty estimate: every resource priced in the after template is an added
\* entry with beforeCost 0 and afterCost its monthly cost, no entry is removed,
\* modified or unchanged, costDifference is the after total, and
\* percentageChange is 100 whenever the after total is positive.
C12_NullBeforeAllAdded ==
  (stage = "compared" /\ beforeTemplate = Null) =>
    /\ before.resources = << >>
    /\ before.totalMonthlyCost = 0
    /\ \A i \in DOMAIN after.resources :
         \E j \in DOMAIN Changes :
           /\ Changes[j].resourceId = after.resources[i].resourceId
           /\ Changes[j].beforeCost = 0
           /\ Changes[j].afterCost = after.resources[i].monthlyCost
    /\ \A j \in DOMAIN Changes : Changes[j].changeType = "added"
    /\ comparison.costDifference = after.totalMonthlyCost
    /\ after.totalMonthlyCost > 0 => IsRatio(comparison.percentageChange, 100, 1)

\* a first deployment of an EC2 instance of the default type (0.0104 USD per
\* hour, 7.592 USD per month) next to a second priced resource
C12_Witness ==
  /\ stage = "compared"
  /\ beforeTemplate = Null
  /\ Len(Changes) = 2
  /\ after.totalMonthlyCost > 0
  /\ \E j \in DOMAIN Changes :
       /\ Changes[j].resourceType = "AWS::EC2::Instance"
       /\ Changes[j].changeType = "added"
       /\ Changes[j].afterCost = 104 * HOURS_PER_MONTH
  /\ comparison.percentageChange = Frac(100, 1)

(***************************************************************************)
(* Properties of the ResourceCost records (specification Spec)             *)
(***************************************************************************)
\* the monthlyCost of the rows of a details list, added up
RECURSIVE SumDetails(_)
SumDetails(details) ==
  IF details = << >> THEN 0
  ELSE Head(details).monthlyCost + SumDetails(Tail(details))

\* C13: every ResourceCost has hourlyCost == monthlyCost / 730, also when
\* its monthly cost is the sum of several priced components.  (An hourly
\* cost is held multiplied by 730, so the equation reads as an equality.)
C13_HourlyIsMonthlyOver730 ==
  outcome = "returned" =>
    \A i \in DOMAIN estimate.resources :
      estimate.resources[i].hourlyCost = estimate.resources[i].monthlyCost

\* C14: every ResourceCost has monthlyCost equal to the sum of monthlyCost
\* over the rows of its details.
C14_MonthlyIsSumOfDetails ==
  outcome = "returned" =>
    \A i \in DOMAIN estimate.resources :
      estimate.resources[i].monthlyCost = SumDetails(estimate.resources[i].details)

\* a NAT gateway (two rows) next to a gp3 volume with extra IOPS (two rows)
C14_Witness ==
  /\ outcome = "returned"
  /\ Len(estimate.resources) = 2
  /\ \E i, j \in DOMAIN estimate.resources :
       /\ estimate.resources[i].resourceType = "AWS::EC2::NatGateway"
       /\ Len(estimate.resources[i].details) = 2
       /\ estimate.resources[i].details[2].monthlyCost > 0
       /\ estimate.resources[j].resourceType = "AWS::EC2::Volume"
       /\ Len(estimate.resources[j].details) = 2

\* quantity * unitPrice = monthlyCost for a unit price held as a fraction
RowIsProduct(row) ==
  IF row.quantity = 0 \/ row.unitPrice.num = 0 THEN row.monthlyCost = 0
  ELSE /\ row.monthlyCost # 0
       /\ Reduced(row.monthlyCost, row.quantity)
            = Reduced(row.unitPrice.num, row.unitPrice.den)

\* C15: every CostDetail row has monthlyCost == quantity * unitPrice.
C15_RowIsQuantityTimesPrice ==
  outcome = "returned" =>
    \A i \in DOMAIN estimate.resources :
      \A k \in DOMAIN estimate.resources[i].details :
        RowIsProduct(estimate.resources[i].details[k])

\* the position of a logical id in a list of ResourceCost or
\* UnsupportedResource (0 when it is not in the list)
PositionOf(rs, id) ==
  IF \E i \in DOMAIN rs : rs[i].resourceId = id
  THEN CHOOSE i \in DOMAIN rs : rs[i].resourceId = id
  ELSE 0

\* both ids are in the list, the first before the second
InOrder(rs, x, y) ==
  (PositionOf(rs, x) # 0 /\ PositionOf(rs, y) # 0) => PositionOf(rs, x) < PositionOf(rs, y)

\* C18: resources and unsupportedResources keep the order of the template's
\* resource section: when X is written before Y and both are priced, X's
\* ResourceCost precedes Y's, and likewise for two unsupported resources.
C18_TemplateOrderKept ==
  outcome = "returned" =>
    \A i, j \in DOMAIN template.Resources :
      i < j =>
        /\ InOrder(estimate.resources,
                   template.Resources[i].logicalId, template.Resources[j].logicalId)
        /\ InOrder(estimate.unsupportedResources,
                   template.Resources[i].logicalId, template.Resources[j].logicalId)

(***************************************************************************)
(* Properties of getPropertyValue (specification SpecProperty)             *)
(***************************************************************************)
IntrinsicKeys == {"Ref", "Fn::GetAtt", "Fn::Sub", "Fn::If", "Fn::Select"}

\* the value is, or contains, a record keyed by an intrinsic name
RECURSIVE ContainsIntrinsic(_)
ContainsIntrinsic(v) ==
  CASE v.t = "obj" ->
         \/ DOMAIN v.o \cap IntrinsicKeys # {}
         \/ \E k \in DOMAIN v.o : ContainsIntrinsic(v.o[k])
    [] v.t = "arr" -> \E i \in DOMAIN v.a : ContainsIntrinsic(v.a[i])
    [] OTHER -> FALSE

\* C19: getPropertyValue returns the caller's default or a fully resolved
\* value: never a record keyed by Ref, Fn::GetAtt, Fn::Sub, Fn::If or
\* Fn::Select, nor a value that contains one.
C19_NoUnresolvedIntrinsic ==
  propertyCall # Null =>
    \/ propertyResult = propertyCall.defaultValue
    \/ ~ContainsIntrinsic(propertyResult)

\* The path as the claim reads it: a segment is absent when it is missing,
\* null or undefined, or when it is looked up in a value that is neither a
\* record nor a list.
RECURSIVE SegmentsPresent(_, _)
SegmentsPresent(value, parts) ==
  IF value.t \in {"null", "undefined"} THEN FALSE
  ELSE IF parts = << >> THEN TRUE
  ELSE IF value.t \notin {"obj", "arr"} THEN FALSE
  ELSE SegmentsPresent(Get(value, Head(parts)), Tail(parts))

RECURSIVE ValueAt(_, _)
ValueAt(value, parts) ==
  IF parts = << >> THEN value ELSE ValueAt(Get(value, Head(parts)), Tail(parts))

\* C20: getPropertyValue returns the default whenever a segment of the path
\* is missing, null or undefined, or reached through a value that is not a
\* record, and otherwise the value at the path as the resolver rewrites it.
C20_DefaultOrResolvedValue ==
  propertyCall # Null =>
    IF SegmentsPresent(propertyCall.properties, propertyCall.propertyPath)
    THEN propertyResult
           = resolveBasicIntrinsics(PropertyTemplate,
               ValueAt(propertyCall.properties, propertyCall.propertyPath), EmptyObj)
    ELSE propertyResult = propertyCall.defaultValue

\* the branch that the documented priority gives a type
BranchOf(type) ==
  IF FreeType(type) THEN "free"
  ELSE IF type \in RegisteredTypes THEN "registry"
  ELSE IF type \in USAGE_BASED_RESOURCES THEN "usage"
  ELSE "unsupported"

\* the entries of a list that carry a resourceId
EntriesOf(rs, id) == { k \in DOMAIN rs : rs[k].resourceId = id }

NonFreeEntries ==
  { i \in DOMAIN Extracted : ~FreeType(Extracted[i].resource.Type) }

\* C27: every extracted resource of a type that is not free has exactly one
\* entry, a ResourceCost or an UnsupportedResource, so the two lists together
\* are as long as the number of such resources.
C27_OneEntryPerResource ==
  outcome = "returned" =>
    /\ \A i \in NonFreeEntries :
         Cardinality(EntriesOf(estimate.resources, Extracted[i].logicalId))
           + Cardinality(EntriesOf(estimate.unsupportedResources, Extracted[i].logicalId))
           = 1
    /\ Len(estimate.resources) + Len(estimate.unsupportedResources)
         = Cardinality(NonFreeEntries)

\* the total of an estimate is the sum over its resources, whose ids are
\* distinct
WellFormedEstimate(e) ==
  /\ e.totalMonthlyCost = SumOver(e.resources, DOMAIN e.resources, "monthlyCost")
  /\ \A i, j \in DOMAIN e.resources :
       e.resources[i].resourceId = e.resources[j].resourceId => i = j

UnchangedEntries == { i \in DOMAIN Changes : Changes[i].changeType = "unchanged" }

\* the comparison's costDifference less the sum of the entries' costDifference
UnattributedDifference ==
  comparison.costDifference - SumOver(Changes, DOMAIN Changes, "costDifference")

\* C29: for two estimates whose totals are the sums of their resources and
\* whose resourceIds are distinct, the comparison's costDifference is within
\* 0.01 per unchanged entry of the sum of costDifference over
\* resourceChanges, and equal to it when every unchanged entry has the same
\* cost before and after.
C29_DifferenceAttributed ==
  (stage = "compared" /\ WellFormedEstimate(before) /\ WellFormedEstimate(after)) =>
    /\ Abs(UnattributedDifference) <= CentThreshold * Cardinality(UnchangedEntries)
    /\ (\A i \in UnchangedEntries : Changes[i].beforeCost = Changes[i].afterCost)
         => UnattributedDifference = 0

\* an unchanged entry whose costs differ next to an entry that changed, and
\* a comparison whose difference is not the sum of its entries'
C29_Witness ==
  /\ stage = "compared"
  /\ WellFormedEstimate(before) /\ WellFormedEstimate(after)
  /\ \E i \in UnchangedEntries : Changes[i].beforeCost # Changes[i].afterCost
  /\ \E i \in DOMAIN Changes : Changes[i].changeType # "unchanged"
  /\ UnattributedDifference # 0

(***************************************************************************)
(* Properties of the resolver (specifications SpecResolve and SpecProperty)*)
(***************************************************************************)
\* the override the context supplies for the name of the call (undefined
\* when it supplies none)
SuppliedOverride ==
  OptGet(OptGet(resolveCall.context, "parameters"), resolveCall.refName)

\* the default the template declares for the parameter of that name
\* (undefined when it declares none)
DeclaredDefault ==
  OptGet(OptGet(resolveCall.parameters, resolveCall.refName), "Default")

\* C21: a reference resolves to the context override for its name when one
\* is supplied, otherwise to the declared default of the parameter of that
\* name, otherwise to the placeholder "{{Ref:<name>}}".
C21_OverrideDefaultPlaceholder ==
  resolveCall # Null =>
    resolveResult =
      IF SuppliedOverride.t # "undefined" THEN SuppliedOverride
      ELSE IF DeclaredDefault.t # "undefined" THEN DeclaredDefault
      ELSE Str("{{Ref:" \o resolveCall.refName \o "}}")

\* the value found at the path of the property call
ReadValue == ValueAt(propertyCall.properties, propertyCall.propertyPath)

\* the property read is a list-select expression
ReadsSelect ==
  /\ propertyCall # Null
  /\ SegmentsPresent(propertyCall.properties, propertyCall.propertyPath)
  /\ ReadValue.t = "obj"
  /\ "Fn::Select" \in DOMAIN ReadValue.o

\* the list of a select expression of two arguments, as the resolver
\* rewrites it
SelectList ==
  resolveBasicIntrinsics(PropertyTemplate, ReadValue.o["Fn::Select"].a[2], EmptyObj)

\* numeric index, list that resolves to a list, index in range
SelectInRange ==
  /\ ReadValue.o["Fn::Select"].t = "arr"
  /\ Len(ReadValue.o["Fn::Select"].a) = 2
  /\ ReadValue.o["Fn::Select"].a[1].t = "num"
  /\ SelectList.t = "arr"
  /\ ReadValue.o["Fn::Select"].a[1].n >= 0
  /\ ReadValue.o["Fn::Select"].a[1].n < Len(SelectList.a)

\* C22: a list-select with a numeric index in range of a list that resolves
\* to a list yields that element; in every other case the property read
\* through getPropertyValue yields the caller's default.
C22_SelectOrDefault ==
  ReadsSelect =>
    IF SelectInRange
    THEN propertyResult = SelectList.a[ReadValue.o["Fn::Select"].a[1].n + 1]
    ELSE propertyResult = propertyCall.defaultValue

(***************************************************************************)
(* Properties of parameter references (specification SpecReference)        *)
(***************************************************************************)
\* C28: a template that gives a property as a reference to a parameter with
\* default v yields the same ResourceCost records as the template that gives
\* the literal v.
C28_ReferenceAsLiteral ==
  (literalRun # Null /\ ~literalRun.result.threw) =>
    /\ ~referenceRun.result.threw
    /\ referenceRun.result.estimate.resources = literalRun.result.estimate.resources

(***************************************************************************)
(* Properties of the template comparison (specification SpecParser)        *)
(***************************************************************************)
\* the logical ids of the entries of a map
IdsOf(entries) == { entries[i].logicalId : i \in DOMAIN entries }

\* the resource that a template declares under a logical id
DeclaredIn(tmpl, id) ==
  LET i == CHOOSE j \in DOMAIN tmpl.Resources : tmpl.Resources[j].logicalId = id
  IN tmpl.Resources[i].resource

\* the Properties record as serialised: none, null and {} are all written {}
WrittenProperties(resource) ==
  IF resource.Properties \in {Undefined, Null} THEN EmptyObj ELSE resource.Properties

DocumentedPercent(region) ==
  IF region \in DOMAIN REGIONAL_MULTIPLIERS THEN REGIONAL_MULTIPLIERS[region] ELSE 110

\* base * percent / 100, to the nearest 0.0001 USD
Scaled(base, percent) == (base * percent + 50) \div 100

\* table has the keys of the base and each leaf is the base leaf times percent
IsScaledTable(table, percent) ==
  /\ DOMAIN table = DOMAIN US_EAST_1_PRICING
  /\ DOMAIN table.ec2 = DOMAIN US_EAST_1_PRICING.ec2
  /\ DOMAIN table.ebs = DOMAIN US_EAST_1_PRICING.ebs
  /\ \A group \in { <<table.ec2.instances, US_EAST_1_PRICING.ec2.instances>>,
                     <<table.ebs.volumes, US_EAST_1_PRICING.ebs.volumes>>,
                     <<table.ebs.iops, US_EAST_1_PRICING.ebs.iops>>,
                     <<table.ebs.throughput, US_EAST_1_PRICING.ebs.throughput>>,
                     <<table.kinesis, US_EAST_1_PRICING.kinesis>>,
                     <<table.natGateway, US_EAST_1_PRICING.natGateway>>,
                     <<table.other, US_EAST_1_PRICING.other>> } :
       /\ DOMAIN group[1] = DOMAIN group[2]
       /\ \A key \in DOMAIN group[1] : group[1][key] = Scaled(group[2][key], percent)

\* C23: getRegionalPricing returns the base table for us-east-1 and, for
\* every other region, a table with the keys of the base whose every numeric
\* leaf is the base value times the factor of the region, 1.1 for a region
\* the multiplier table does not hold.
C23_RegionalTable ==
  \A k \in DOMAIN lookups :
    IF lookups[k].region = "us-east-1"
    THEN lookups[k].table = 1 /\ pricingHeap[1] = US_EAST_1_PRICING
    ELSE IsScaledTable(pricingHeap[lookups[k].table],
                       DocumentedPercent(lookups[k].region))

\* the result of the same call in a process that makes no other call
PricedAlone(region, tmpl) ==
  calculateStackCost("stack", tmpl, "local",
    IF region = "us-east-1" THEN US_EAST_1_PRICING
    ELSE applyMultiplier(US_EAST_1_PRICING, RegionMultiplier(region)))

\* C24: whatever the order of pricing lookups and pricing calls for
\* different regions, the base table is never modified, a table returned for
\* another region is an object of its own (neither the base nor a table
\* returned by another lookup), and each call returns what it returns alone.
C24_TablesIsolated ==
  /\ pricingHeap[1] = US_EAST_1_PRICING
  /\ \A k \in DOMAIN lookups :
       lookups[k].region # "us-east-1" =>
         /\ lookups[k].table # 1
         /\ \A j \in DOMAIN lookups : j # k => lookups[j].table # lookups[k].table
  /\ \A k \in DOMAIN priced :
       priced[k] # Null =>
         priced[k].result = PricedAlone(lookups[k].region, priced[k].template)

\* two calculators of different regions other than us-east-1 were built, the
\* second after the first had priced a stack, and both have priced one
C24_Witness ==
  /\ Len(lookups) >= 2
  /\ lookups[1].region # lookups[2].region
  /\ lookups[1].region # "us-east-1" /\ lookups[2].region # "us-east-1"
  /\ priced[1] # Null /\ priced[2] # Null
  /\ priced[1].template = priced[2].template
  /\ priced[1].result # priced[2].result

(***************************************************************************)
(* Properties of the formatter (specification SpecFormat)                  *)
(***************************************************************************)
\* C30: a format call leaves the estimate and the comparison as they were:
\* the resources of the estimate and the resourceChanges of the comparison
\* keep their order.
C30_FormatLeavesRecords ==
  [][rendered' # rendered =>
       /\ before' = before
       /\ after' = after
       /\ comparison' = comparison]_vars

(***************************************************************************)
(* Properties of the exchanged comparison and of the report functions      *)
(* (specification SpecReport)                                              *)
(***************************************************************************)
\* the change types that exchanging the two estimates maps to each other
MirrorType(changeType) ==
  CASE changeType = "added" -> "removed"
    [] changeType = "removed" -> "added"
    [] OTHER -> changeType

\* r is the entry that mirrors c: same resource, mirrored classification,
\* same magnitude; a modified entry has the negated difference
Mirrors(c, r) ==
  /\ r.resourceId = c.resourceId
  /\ r.changeType = MirrorType(c.changeType)
  /\ Abs(r.costDifference) = Abs(c.costDifference)
  /\ c.changeType = "modified" => r.costDifference = -c.costDifference
  /\ c.changeType = "unchanged" => r.costDifference = 0

\* C11: compareEstimates(B, A) mirrors compareEstimates(A, B): the total
\* costDifference has the opposite sign, every added entry is a removed entry
\* of the same magnitude and the reverse, every modified entry is modified
\* with the negated difference, every unchanged entry is unchanged.
C11_ExchangeMirrors ==
  stage = "reversed" =>
    /\ reversed.costDifference = -comparison.costDifference
    /\ Len(reversed.resourceChanges) = Len(Changes)
    /\ \A i \in DOMAIN Changes :
         \E j \in DOMAIN reversed.resourceChanges :
           Mirrors(Changes[i], reversed.resourceChanges[j])

\* an exchanged comparison with an added, a removed and a modified entry
C11_Witness ==
  /\ stage = "reversed"
  /\ comparison.costDifference # 0
  /\ \E i, j, k \in DOMAIN Changes :
       /\ Changes[i].changeType = "added" /\ Changes[i].costDifference # 0
       /\ Changes[j].changeType = "removed"
       /\ Changes[k].changeType = "modified"
  /\ \E j \in DOMAIN reversed.resourceChanges :
       reversed.resourceChanges[j].changeType = "modified"

\* the test of getSignificantChanges, stated on one entry
IsSignificant(change) ==
  change.changeType # "unchanged" /\ Abs(change.costDifference) > 100

IndicesOf(changeType) == {i \in DOMAIN Changes : Changes[i].changeType = changeType}

RECURSIVE SumAbsOver(_, _)
SumAbsOver(rs, indices) ==
  IF indices = {} THEN 0
  ELSE LET i == CHOOSE j \in indices : TRUE
       IN Abs(rs[i].costDifference) + SumAbsOver(rs, indices \ {i})

\* C17: in the record of getSummaryStats the four counts are the numbers of
\* entries of each classification and add up to the number of entries,
\* addedCost is the signed sum over the added entries, modifiedCostChange the
\* signed sum over the modified entries, and removedCost the sum of
\* |costDifference| over the removed entries, never negative.
C17_SummaryStats ==
  stage = "summarized" =>
    /\ stats.totalAdded + stats.totalRemoved + stats.totalModified + stats.totalUnchanged
         = Len(Changes)
    /\ stats.totalAdded = Cardinality(IndicesOf("added"))
    /\ stats.totalRemoved = Cardinality(IndicesOf("removed"))
    /\ stats.totalModified = Cardinality(IndicesOf("modified"))
    /\ stats.totalUnchanged = Cardinality(IndicesOf("unchanged"))
    /\ stats.addedCost = SumOver(Changes, IndicesOf("added"), "costDifference")
    /\ stats.modifiedCostChange = SumOver(Changes, IndicesOf("modified"), "costDifference")
    /\ stats.removedCost = SumAbsOver(Changes, IndicesOf("removed"))
    /\ stats.removedCost >= 0

\* two removed entries of opposite sign next to an added entry of negative
\* cost
C17_Witness ==
  /\ stage = "summarized"
  /\ \E i, j, k \in DOMAIN Changes :
       /\ Changes[i].changeType = "removed" /\ Changes[i].costDifference > 0
       /\ Changes[j].changeType = "removed" /\ Changes[j].costDifference < 0
       /\ Changes[k].changeType = "added" /\ Changes[k].costDifference < 0
  /\ stats.totalRemoved = 2
  /\ stats.removedCost > 0
  /\ stats.addedCost < 0

====
